---- MODULE Spec2Model ----
(***************************************************************************)
(* Content-addressed, deduplicating file storage with integrity checks:    *)
(* the hash abstraction (crypto/hash.rs), the Merkle tree                  *)
(* (core/merkle_tree.rs), the storage engine (storage/engine.rs), the      *)
(* Bloom filter (filter/bloom.rs), the commitment (crypto/commitment.rs)   *)
(* and the file authenticator (auth/authenticator.rs).                     *)
(*                                                                         *)
(* Digests.  SHA-2/SHA-3 cannot be evaluated by a model checker, and the   *)
(* design accepts collision freedom as an assumption, so a digest is the   *)
(* byte string  <<tag(algo)>> \o data \o <<end>> : a function of           *)
(* (data, algo) that is injective, like an ideal hash.  Payload bytes are  *)
(* 0, 1 and 2, which are neither tag nor end bytes.                        *)
(***************************************************************************)
EXTENDS Integers, Sequences, FiniteSets, TLC

\* ------------------------------------------------------------------ bounds
\* longest payload handed to store_file
MaxLen == 5
\* number of store_file calls in a behaviour of Spec
MaxCalls == 2
\* longest leaf sequence handed to MerkleTree::new
MaxLeaves == 5
\* store_file calls and outside alterations in a behaviour of TamperSpec
MaxTamperStores == 2
MaxTampers == 1
\* largest expected_items handed to BloomFilter::new, and add calls made
MaxExpected == 2
MaxAdds == 3
\* longest secret committed to
MaxSecretLen == 2
\* successful register calls on one authenticator
MaxRegisters == 3
\* engines constructed over one directory after the first, and store_file
\* calls made on all of them together
MaxRestarts == 1
MaxRestartStores == 3
\* store_file calls of each of the two tasks
MaxRaceCalls == 1
\* upload_file calls that reach store_file
MaxUploads == 3
\* store_file calls before lookups under other algorithm tags
MaxLookupStores == 2
\* store_file calls, failing ones included, when the sidecar write may fail
MaxFailCalls == 3

\* data.chunks(1024 * 1024): the chunk length, scaled from 1 MiB to 2 bytes
CHUNK_SIZE == 2

VARIABLES
    hash_to_path,       \* StorageEngine.hash_to_path: hex -> sidecar path
    hash_to_metadata,   \* StorageEngine.hash_to_metadata: hex -> FileMetadata
    dedup_stats,        \* StorageEngine.dedup_stats
    chunk_files,        \* storage_dir: chunk path -> bytes of the blob
    meta_files,         \* storage_dir: sidecar path -> serialized FileMetadata
    now,                \* the clock read by Utc::now()
    ret,                \* the last call on the engine and what it returned
    hist,               \* history of the store_file calls made so far
    tree,               \* a MerkleTree (Option: <<>> before construction)
    proof,              \* result of the last generate_proof call
    verified,           \* result of the last verify_proof call
    mk,                 \* the Merkle caller: its leaves, index and position
    bloom,              \* a BloomFilter
    bloom_log,          \* its construction parameters, the items added, the last call
    commitment,         \* a Commitment (Option: <<>> before commit)
    commit_log,         \* the secret committed to and the last verify call
    auth,               \* FileAuthenticator: known_files and its bloom
    watch_files,        \* the watched directory: path -> content of the file
    auth_log,           \* contents at registration and the last authenticator call
    boot,               \* engines constructed over storage_dir before this one
    race,               \* store_file calls in progress when calls interleave
    database,           \* Database: the users and files tables
    upload              \* the uploads that succeeded and the last service call

evars == <<hash_to_path, hash_to_metadata, dedup_stats, chunk_files, meta_files,
           now, ret, hist>>
mvars == <<tree, proof, verified, mk>>
bvars == <<bloom, bloom_log>>
cvars == <<commitment, commit_log>>
avars == <<auth, watch_files, auth_log>>
svars == <<database, upload>>
vars == <<hash_to_path, hash_to_metadata, dedup_stats, chunk_files, meta_files,
          now, ret, hist, tree, proof, verified, mk, bloom, bloom_log,
          commitment, commit_log, auth, watch_files, auth_log, boot, race,
          database, upload>>

\* ------------------------------------------------------------- crypto/hash
HashAlgo == {"Sha256", "Sha512", "Sha3_256", "Sha3_512"}

AlgoTag(algo) ==
    CASE algo = "Sha256"   -> 161
      [] algo = "Sha512"   -> 162
      [] algo = "Sha3_256" -> 163
      [] algo = "Sha3_512" -> 164

\* HashValue::compute
Compute(data, algo) ==
    [algo |-> algo, bytes |-> <<AlgoTag(algo)>> \o data \o <<175>>]

HexDigits == <<"0", "1", "2", "3", "4", "5", "6", "7",
               "8", "9", "a", "b", "c", "d", "e", "f">>

\* hex::encode: two lowercase digits per byte, high nibble first
HexEncode(bytes) ==
    [k \in 1..(2 * Len(bytes)) |->
        LET b == bytes[(k + 1) \div 2]
        IN  IF k % 2 = 1 THEN HexDigits[(b \div 16) + 1]
                         ELSE HexDigits[(b % 16) + 1]]

\* HashValue::to_hex: the algorithm tag is not part of the text
ToHex(hash) == HexEncode(hash.bytes)

\* ------------------------------------------------------- core/merkle_tree
\* MerkleNextLevel if the odd last node were promoted unchanged instead of
\* being hashed with itself
MerkleNextLevelPromote(current) ==
    [j \in 1..((Len(current) + 1) \div 2) |->
        IF 2 * j <= Len(current)
        THEN Compute(current[2 * j - 1].bytes \o current[2 * j].bytes, "Sha256")
        ELSE current[2 * j - 1]]

\* one pass of `for pair in current.chunks(2)`
MerkleNextLevel(current) ==
    [j \in 1..((Len(current) + 1) \div 2) |->
        IF 2 * j <= Len(current)
        THEN Compute(current[2 * j - 1].bytes \o current[2 * j].bytes, "Sha256")
        ELSE Compute(current[2 * j - 1].bytes \o current[2 * j - 1].bytes, "Sha256")]

RECURSIVE MerkleLoop(_, _)
\* `while current.len() > 1`: returns the levels and the last `current`
MerkleLoop(levels, current) ==
    IF Len(current) > 1
    THEN LET next == MerkleNextLevel(current)
         IN  MerkleLoop(Append(levels, next), next)
    ELSE [levels |-> levels, current |-> current]

\* MerkleNew if the loop tested its condition after the body (do-while): a
\* single leaf is hashed with itself once
MerkleNewDoWhile(leaves) ==
    IF Len(leaves) = 0
    THEN [root |-> Compute(<<>>, "Sha256"), leaves |-> <<>>, levels |-> <<>>]
    ELSE LET next == MerkleNextLevel(leaves)
             r == MerkleLoop(<<leaves, next>>, next)
         IN  [root |-> r.current[1], leaves |-> leaves, levels |-> r.levels]

\* MerkleNew if the empty input recorded its (empty) leaf level
MerkleNewEmptyLevel(leaves) ==
    IF Len(leaves) = 0
    THEN [root |-> Compute(<<>>, "Sha256"), leaves |-> <<>>, levels |-> <<leaves>>]
    ELSE LET r == MerkleLoop(<<leaves>>, leaves)
         IN  [root |-> r.current[1], leaves |-> leaves, levels |-> r.levels]

\* MerkleTree::new
MerkleNew(leaves) ==
    IF Len(leaves) = 0
    THEN [root |-> Compute(<<>>, "Sha256"), leaves |-> <<>>, levels |-> <<>>]
    ELSE LET r == MerkleLoop(<<leaves>>, leaves)
         IN  [root |-> r.current[1], leaves |-> leaves, levels |-> r.levels]

\* MerkleTree::root
MerkleRoot(t) == t.root

RECURSIVE ProofWalkSelfPair(_, _, _, _)
\* ProofWalk if a node without a sibling were recorded as its own right
\* sibling
ProofWalkSelfPair(t, level, idx, siblings) ==
    IF level >= Len(t.levels) - 1
    THEN siblings
    ELSE LET sibling_idx == IF idx % 2 = 0 THEN idx + 1 ELSE idx - 1
             is_right == idx % 2 = 0
         IN  ProofWalkSelfPair(t, level + 1, idx \div 2,
                 IF sibling_idx < Len(t.levels[level + 1])
                 THEN Append(siblings,
                             <<t.levels[level + 1][sibling_idx + 1], is_right>>)
                 ELSE Append(siblings,
                             <<t.levels[level + 1][idx + 1], is_right>>))

RECURSIVE ProofWalk(_, _, _, _)
\* `for level in 0..self.levels.len()-1` of generate_proof; level and idx are
\* counted from 0 as in the source
ProofWalk(t, level, idx, siblings) ==
    IF level >= Len(t.levels) - 1
    THEN siblings
    ELSE LET sibling_idx == IF idx % 2 = 0 THEN idx + 1 ELSE idx - 1
             is_right == idx % 2 = 0
         IN  ProofWalk(t, level + 1, idx \div 2,
                 IF sibling_idx < Len(t.levels[level + 1])
                 THEN Append(siblings,
                             <<t.levels[level + 1][sibling_idx + 1], is_right>>)
                 ELSE siblings)

\* Option<MerkleProof>, and the panic an index out of bounds raises
None == [tag |-> "None", val |-> <<>>]
Some(p) == [tag |-> "Some", val |-> <<p>>]
Panic == [tag |-> "Panic", val |-> <<>>]

\* GenerateProof if the range check were `>`: index len passes the check and
\* self.leaves[leaf_idx] (or levels.len()-1 on an empty tree) panics
GenerateProofOffByOne(t, leaf_idx) ==
    IF leaf_idx > Len(t.leaves)
    THEN None
    ELSE IF Len(t.levels) = 0 \/ leaf_idx = Len(t.leaves)
    THEN Panic
    ELSE Some([leaf_hash |-> t.leaves[leaf_idx + 1],
               siblings |-> ProofWalk(t, 0, leaf_idx, <<>>),
               root_hash |-> t.root])

\* MerkleTree::generate_proof
GenerateProof(t, leaf_idx) ==
    IF leaf_idx >= Len(t.leaves)
    THEN None
    ELSE IF Len(t.levels) = 0
    THEN Panic
    ELSE Some([leaf_hash |-> t.leaves[leaf_idx + 1],
               siblings |-> ProofWalk(t, 0, leaf_idx, <<>>),
               root_hash |-> t.root])

RECURSIVE VerifyFold(_, _, _)
\* `for (sibling, is_right) in &proof.siblings` of verify_proof
VerifyFold(current, siblings, k) ==
    IF k > Len(siblings)
    THEN current
    ELSE LET sibling == siblings[k][1]
             is_right == siblings[k][2]
             combined == IF is_right THEN current.bytes \o sibling.bytes
                                     ELSE sibling.bytes \o current.bytes
         IN  VerifyFold(Compute(combined, "Sha256"), siblings, k + 1)

\* MerkleTree::verify_proof
VerifyProof(p) == VerifyFold(p.leaf_hash, p.siblings, 1) = p.root_hash

\* ----------------------------------------------------------- storage/engine
\* Chunks as data.chunks_exact would cut it: the short remainder is dropped
ChunksExact(data) ==
    [i \in 1..(Len(data) \div CHUNK_SIZE) |->
        SubSeq(data, (i - 1) * CHUNK_SIZE + 1, i * CHUNK_SIZE)]

\* Chunks if the number of slices were len / CHUNK_SIZE + 1: data of a whole
\* number of chunks gets an empty slice at the end
ChunksTrailingEmpty(data) ==
    [i \in 1..(Len(data) \div CHUNK_SIZE + 1) |->
        SubSeq(data, (i - 1) * CHUNK_SIZE + 1,
               IF i * CHUNK_SIZE < Len(data) THEN i * CHUNK_SIZE ELSE Len(data))]

\* data.chunks(CHUNK_SIZE): consecutive slices, the last one may be shorter
Chunks(data) ==
    [i \in 1..((Len(data) + CHUNK_SIZE - 1) \div CHUNK_SIZE) |->
        SubSeq(data, (i - 1) * CHUNK_SIZE + 1,
               IF i * CHUNK_SIZE < Len(data) THEN i * CHUNK_SIZE ELSE Len(data))]

\* storage_dir.join(format!("{}_{}.chunk", hex, i)), i counted from 0
ChunkPath(hex, i) == [hex |-> hex, i |-> i, ext |-> "chunk"]

\* storage_dir.join(format!("{}.meta", hex))
MetaPath(hex) == [hex |-> hex, ext |-> "meta"]

\* f with key k bound to v (HashMap::insert, File::create + write_all)
Put(f, k, v) == [x \in DOMAIN f \cup {k} |-> IF x = k THEN v ELSE f[x]]

RECURSIVE Concat(_)
Concat(seqs) == IF Len(seqs) = 0 THEN <<>> ELSE Head(seqs) \o Concat(Tail(seqs))

NoRet == [op |-> "none", kind |-> "none", hash |-> Compute(<<>>, "Sha256"),
          input |-> <<>>, meta |-> <<>>, bytes |-> <<>>, reads |-> <<>>,
          wrote |-> {}, dup |-> FALSE]

\* ghost bookkeeping of a store_file call: the number of calls and of bytes
\* submitted, who first submitted each content and when, every pair of
\* content and metadata a call returned, the bytes written to each blob, and
\* the contents submitted again while a blob of theirs did not hold what was
\* written to it
Record(data, filename, owner, meta, written) ==
    LET dup == data \in DOMAIN hist.first
        hex == ToHex(Compute(data, "Sha256"))
        damaged == \E p \in DOMAIN hist.blobs :
                      /\ p.hex = hex
                      /\ p \in DOMAIN chunk_files
                      /\ chunk_files[p] /= hist.blobs[p]
    IN  [n        |-> hist.n + 1,
         bytes    |-> hist.bytes + Len(data),
         dupbytes |-> hist.dupbytes + (IF dup THEN Len(data) ELSE 0),
         first    |-> IF dup THEN hist.first
                      ELSE Put(hist.first, data,
                               [filename |-> filename, owner |-> owner, at |-> now]),
         returned |-> hist.returned \cup {<<data, meta>>},
         blobs    |-> [p \in DOMAIN hist.blobs \cup DOMAIN written |->
                          IF p \in DOMAIN written THEN written[p]
                                                  ELSE hist.blobs[p]],
         tampers  |-> hist.tampers,
         resubmitted |-> IF dup /\ damaged THEN hist.resubmitted \cup {data}
                                           ELSE hist.resubmitted]

\* StoreDuplicate if the hit refreshed the stored metadata with the
\* resubmission's name, owner and time and returned that
StoreDuplicateRefresh(data, filename, owner) ==
    LET hash == Compute(data, "Sha256")
        hex == ToHex(hash)
        refreshed == [hash_to_metadata[hex] EXCEPT !.path = filename,
                                                   !.owner = owner,
                                                   !.modified_at = now]
    IN  /\ hex \in DOMAIN hash_to_metadata
        /\ hash_to_metadata' = [hash_to_metadata EXCEPT ![hex] = refreshed]
        /\ dedup_stats' = [dedup_stats EXCEPT
                              !.total_files = @ + 1,
                              !.total_bytes = @ + Len(data),
                              !.saved_bytes = @ + Len(data)]
        /\ ret' = [NoRet EXCEPT !.op = "store", !.kind = "Ok", !.hash = hash,
                                !.input = <<data, filename, owner>>,
                                !.meta = <<refreshed>>,
                                !.dup = data \in DOMAIN hist.first]
        /\ hist' = Record(data, filename, owner, refreshed, <<>>)
        /\ UNCHANGED <<hash_to_path, chunk_files, meta_files>>

\* StoreDuplicate if the hit wrote the chunk blobs of the submitted data again
StoreDuplicateRewrite(data, filename, owner) ==
    LET hash == Compute(data, "Sha256")
        hex == ToHex(hash)
        existing == hash_to_metadata[hex]
        parts == Chunks(data)
        written == [p \in {ChunkPath(hex, i - 1) : i \in 1..Len(parts)} |->
                       parts[p.i + 1]]
    IN  /\ hex \in DOMAIN hash_to_metadata
        /\ chunk_files' = [p \in DOMAIN chunk_files \cup DOMAIN written |->
                              IF p \in DOMAIN written THEN written[p]
                                                      ELSE chunk_files[p]]
        /\ dedup_stats' = [dedup_stats EXCEPT
                              !.total_files = @ + 1,
                              !.total_bytes = @ + Len(data),
                              !.saved_bytes = @ + Len(data)]
        /\ ret' = [NoRet EXCEPT !.op = "store", !.kind = "Ok", !.hash = hash,
                                !.input = <<data, filename, owner>>,
                                !.meta = <<existing>>,
                                !.wrote = DOMAIN written,
                                !.dup = data \in DOMAIN hist.first]
        /\ hist' = Record(data, filename, owner, existing, written)
        /\ UNCHANGED <<hash_to_path, hash_to_metadata, meta_files>>

\* StoreDuplicate if the hit did not add to saved_bytes
StoreDuplicateUnsaved(data, filename, owner) ==
    LET hash == Compute(data, "Sha256")
        hex == ToHex(hash)
        existing == hash_to_metadata[hex]
    IN  /\ hex \in DOMAIN hash_to_metadata
        /\ dedup_stats' = [dedup_stats EXCEPT
                              !.total_files = @ + 1,
                              !.total_bytes = @ + Len(data)]
        /\ ret' = [NoRet EXCEPT !.op = "store", !.kind = "Ok", !.hash = hash,
                                !.input = <<data, filename, owner>>,
                                !.meta = <<existing>>,
                                !.dup = data \in DOMAIN hist.first]
        /\ hist' = Record(data, filename, owner, existing, <<>>)
        /\ UNCHANGED <<hash_to_path, hash_to_metadata, chunk_files, meta_files>>

\* StoreDuplicate if the hit were counted like a new file
StoreDuplicateMiscounted(data, filename, owner) ==
    LET hash == Compute(data, "Sha256")
        hex == ToHex(hash)
        existing == hash_to_metadata[hex]
    IN  /\ hex \in DOMAIN hash_to_metadata
        /\ dedup_stats' = [dedup_stats EXCEPT
                              !.total_files = @ + 1,
                              !.unique_files = @ + 1,
                              !.total_bytes = @ + Len(data)]
        /\ ret' = [NoRet EXCEPT !.op = "store", !.kind = "Ok", !.hash = hash,
                                !.input = <<data, filename, owner>>,
                                !.meta = <<existing>>,
                                !.dup = data \in DOMAIN hist.first]
        /\ hist' = Record(data, filename, owner, existing, <<>>)
        /\ UNCHANGED <<hash_to_path, hash_to_metadata, chunk_files, meta_files>>

\* store_file, lines 46-53: the content hash is a key of hash_to_metadata
StoreDuplicate(data, filename, owner) ==
    LET hash == Compute(data, "Sha256")
        hex == ToHex(hash)
        existing == hash_to_metadata[hex]
    IN  /\ hex \in DOMAIN hash_to_metadata
        /\ dedup_stats' = [dedup_stats EXCEPT
                              !.total_files = @ + 1,
                              !.total_bytes = @ + Len(data),
                              !.saved_bytes = @ + Len(data)]
        /\ ret' = [NoRet EXCEPT !.op = "store", !.kind = "Ok", !.hash = hash,
                                !.input = <<data, filename, owner>>,
                                !.meta = <<existing>>,
                                !.dup = data \in DOMAIN hist.first]
        /\ hist' = Record(data, filename, owner, existing, <<>>)
        /\ UNCHANGED <<hash_to_path, hash_to_metadata, chunk_files, meta_files>>

\* StoreNew if the Merkle tree were built over the digest of the whole file
\* instead of the chunk digests
StoreNewRootOfFile(data, filename, owner) ==
    LET hash == Compute(data, "Sha256")
        hex == ToHex(hash)
        parts == Chunks(data)
        chunks == [i \in 1..Len(parts) |-> Compute(parts[i], "Sha256")]
        written == [p \in {ChunkPath(hex, i - 1) : i \in 1..Len(parts)} |->
                       parts[p.i + 1]]
        merkle_tree == MerkleNew(<<hash>>)
        metadata == [path |-> filename, size |-> Len(data), hash |-> hash,
                     chunks |-> chunks, merkle_root |-> MerkleRoot(merkle_tree),
                     created_at |-> now, modified_at |-> now, owner |-> owner]
        meta_path == MetaPath(hex)
    IN  /\ hex \notin DOMAIN hash_to_metadata
        /\ chunk_files' = [p \in DOMAIN chunk_files \cup DOMAIN written |->
                              IF p \in DOMAIN written THEN written[p]
                                                      ELSE chunk_files[p]]
        /\ meta_files' = Put(meta_files, meta_path, [json |-> metadata])
        /\ hash_to_path' = Put(hash_to_path, hex, meta_path)
        /\ hash_to_metadata' = Put(hash_to_metadata, hex, metadata)
        /\ dedup_stats' = [dedup_stats EXCEPT
                              !.total_files = @ + 1,
                              !.unique_files = @ + 1,
                              !.total_bytes = @ + Len(data)]
        /\ ret' = [NoRet EXCEPT !.op = "store", !.kind = "Ok", !.hash = hash,
                                !.input = <<data, filename, owner>>,
                                !.meta = <<metadata>>,
                                !.wrote = DOMAIN written \cup {meta_path},
                                !.dup = data \in DOMAIN hist.first]
        /\ hist' = Record(data, filename, owner, metadata, written)

\* store_file, lines 55-95: new content
StoreNew(data, filename, owner) ==
    LET hash == Compute(data, "Sha256")
        hex == ToHex(hash)
        parts == Chunks(data)
        chunks == [i \in 1..Len(parts) |-> Compute(parts[i], "Sha256")]
        written == [p \in {ChunkPath(hex, i - 1) : i \in 1..Len(parts)} |->
                       parts[p.i + 1]]
        merkle_tree == MerkleNew(chunks)
        metadata == [path |-> filename, size |-> Len(data), hash |-> hash,
                     chunks |-> chunks, merkle_root |-> MerkleRoot(merkle_tree),
                     created_at |-> now, modified_at |-> now, owner |-> owner]
        meta_path == MetaPath(hex)
    IN  /\ hex \notin DOMAIN hash_to_metadata
        /\ chunk_files' = [p \in DOMAIN chunk_files \cup DOMAIN written |->
                              IF p \in DOMAIN written THEN written[p]
                                                      ELSE chunk_files[p]]
        /\ meta_files' = Put(meta_files, meta_path, [json |-> metadata])
        /\ hash_to_path' = Put(hash_to_path, hex, meta_path)
        /\ hash_to_metadata' = Put(hash_to_metadata, hex, metadata)
        /\ dedup_stats' = [dedup_stats EXCEPT
                              !.total_files = @ + 1,
                              !.unique_files = @ + 1,
                              !.total_bytes = @ + Len(data)]
        /\ ret' = [NoRet EXCEPT !.op = "store", !.kind = "Ok", !.hash = hash,
                                !.input = <<data, filename, owner>>,
                                !.meta = <<metadata>>,
                                !.wrote = DOMAIN written \cup {meta_path},
                                !.dup = data \in DOMAIN hist.first]
        /\ hist' = Record(data, filename, owner, metadata, written)

\* StorageEngine::store_file; the clock moves on between calls
StoreFile(data, filename, owner) ==
    /\ \/ StoreDuplicate(data, filename, owner)
       \/ StoreNew(data, filename, owner)
    /\ now' = now + 1
    /\ UNCHANGED <<mvars, bvars, cvars, avars, boot, race, svars>>

\* what a failed std::fs::write(&meta_path, ..) may leave of the sidecar:
\* nothing new, or a file cut short
SidecarsAfterFailure(meta_path) ==
    {meta_files, Put(meta_files, meta_path, [json |-> <<>>])}

\* StoreSidecarFails if the hash were registered and counted before the
\* sidecar is written
StoreSidecarFailsRegistered(data, filename, owner) ==
    LET hash == Compute(data, "Sha256")
        hex == ToHex(hash)
        parts == Chunks(data)
        chunks == [i \in 1..Len(parts) |-> Compute(parts[i], "Sha256")]
        written == [p \in {ChunkPath(hex, i - 1) : i \in 1..Len(parts)} |->
                       parts[p.i + 1]]
        metadata == [path |-> filename, size |-> Len(data), hash |-> hash,
                     chunks |-> chunks,
                     merkle_root |-> MerkleRoot(MerkleNew(chunks)),
                     created_at |-> now, modified_at |-> now, owner |-> owner]
        blobs == [p \in DOMAIN chunk_files \cup DOMAIN written |->
                     IF p \in DOMAIN written THEN written[p]
                                             ELSE chunk_files[p]]
    IN  /\ hex \notin DOMAIN hash_to_metadata
        /\ chunk_files' = blobs
        /\ meta_files' \in SidecarsAfterFailure(MetaPath(hex))
        /\ hash_to_path' = Put(hash_to_path, hex, MetaPath(hex))
        /\ hash_to_metadata' = Put(hash_to_metadata, hex, metadata)
        /\ dedup_stats' = [dedup_stats EXCEPT
                              !.total_files = @ + 1,
                              !.unique_files = @ + 1,
                              !.total_bytes = @ + Len(data)]
        /\ ret' = [NoRet EXCEPT !.op = "store", !.kind = "IoError",
                                !.hash = hash,
                                !.input = <<data, filename, owner>>,
                                !.wrote = DOMAIN written]
        /\ hist' = [hist EXCEPT
                       !.blobs = [p \in DOMAIN @ \cup DOMAIN written |->
                                     IF p \in DOMAIN written THEN written[p]
                                                             ELSE @[p]]]
        /\ now' = now + 1
        /\ UNCHANGED <<mvars, bvars, cvars, avars, boot, race, svars>>

\* store_file of new content when std::fs::write of the sidecar fails (line
\* 82): the chunk blobs of lines 56-62 are on disk, `?` returns the error
\* before lines 85-90
StoreSidecarFails(data, filename, owner) ==
    LET hash == Compute(data, "Sha256")
        hex == ToHex(hash)
        parts == Chunks(data)
        written == [p \in {ChunkPath(hex, i - 1) : i \in 1..Len(parts)} |->
                       parts[p.i + 1]]
        blobs == [p \in DOMAIN chunk_files \cup DOMAIN written |->
                     IF p \in DOMAIN written THEN written[p]
                                             ELSE chunk_files[p]]
    IN  /\ hex \notin DOMAIN hash_to_metadata
        /\ chunk_files' = blobs
        /\ meta_files' \in SidecarsAfterFailure(MetaPath(hex))
        /\ ret' = [NoRet EXCEPT !.op = "store", !.kind = "IoError",
                                !.hash = hash,
                                !.input = <<data, filename, owner>>,
                                !.wrote = DOMAIN written]
        /\ hist' = [hist EXCEPT
                       !.blobs = [p \in DOMAIN @ \cup DOMAIN written |->
                                     IF p \in DOMAIN written THEN written[p]
                                                             ELSE @[p]]]
        /\ now' = now + 1
        /\ UNCHANGED <<hash_to_path, hash_to_metadata, dedup_stats>>
        /\ UNCHANGED <<mvars, bvars, cvars, avars, boot, race, svars>>

RECURSIVE ReadChunksBreak(_, _, _, _)
\* ReadChunks if a mismatch ended the loop (break) instead of the call (bail)
ReadChunksBreak(hex, metadata, i, acc) ==
    IF i >= Len(metadata.chunks)
    THEN [kind |-> "Ok", bytes |-> Concat(acc.full_data), reads |-> acc.reads]
    ELSE LET chunk_path == ChunkPath(hex, i)
         IN  IF chunk_path \notin DOMAIN chunk_files
             THEN [kind |-> "IoError", bytes |-> <<>>, reads |-> acc.reads]
             ELSE LET chunk_data == chunk_files[chunk_path]
                      computed == Compute(chunk_data, "Sha256")
                      reads == Append(acc.reads, i)
                  IN  IF computed /= metadata.chunks[i + 1]
                      THEN [kind |-> "Ok", bytes |-> Concat(acc.full_data),
                            reads |-> reads]
                      ELSE ReadChunksBreak(hex, metadata, i + 1,
                               [full_data |-> Append(acc.full_data, chunk_data),
                                reads |-> reads])

RECURSIVE ReadChunks(_, _, _, _)
\* the loop of retrieve_file from chunk i on (i counted from 0)
ReadChunks(hex, metadata, i, acc) ==
    IF i >= Len(metadata.chunks)
    THEN [kind |-> "Ok", bytes |-> Concat(acc.full_data), reads |-> acc.reads]
    ELSE LET chunk_path == ChunkPath(hex, i)
         IN  IF chunk_path \notin DOMAIN chunk_files
             THEN [kind |-> "IoError", bytes |-> <<>>, reads |-> acc.reads]
             ELSE LET chunk_data == chunk_files[chunk_path]
                      computed == Compute(chunk_data, "Sha256")
                      reads == Append(acc.reads, i)
                  IN  IF computed /= metadata.chunks[i + 1]
                      THEN [kind |-> "IntegrityViolation", bytes |-> <<>>,
                            reads |-> reads]
                      ELSE ReadChunks(hex, metadata, i + 1,
                               [full_data |-> Append(acc.full_data, chunk_data),
                                reads |-> reads])

\* Retrieve if the lookup compared the whole HashValue, algorithm included,
\* with the hash of the indexed metadata
RetrieveByValue(hash) ==
    LET hex == ToHex(hash)
    IN  IF hex \notin DOMAIN hash_to_metadata
           \/ hash_to_metadata[hex].hash /= hash
        THEN [kind |-> "NotFound", bytes |-> <<>>, reads |-> <<>>]
        ELSE ReadChunks(hex, hash_to_metadata[hex], 0,
                        [full_data |-> <<>>, reads |-> <<>>])

\* Retrieve if an unknown hash were looked up with unwrap_or_default: a file
\* of no chunks
RetrieveDefault(hash) ==
    LET hex == ToHex(hash)
    IN  IF hex \notin DOMAIN hash_to_metadata
        THEN [kind |-> "Ok", bytes |-> <<>>, reads |-> <<>>]
        ELSE ReadChunks(hex, hash_to_metadata[hex], 0,
                        [full_data |-> <<>>, reads |-> <<>>])

\* the value retrieve_file returns
Retrieve(hash) ==
    LET hex == ToHex(hash)
    IN  IF hex \notin DOMAIN hash_to_metadata
        THEN [kind |-> "NotFound", bytes |-> <<>>, reads |-> <<>>]
        ELSE ReadChunks(hex, hash_to_metadata[hex], 0,
                        [full_data |-> <<>>, reads |-> <<>>])

\* StorageEngine::retrieve_file (&self: the engine is only read)
RetrieveFile(hash) ==
    LET r == Retrieve(hash)
    IN  /\ ret' = [NoRet EXCEPT !.op = "retrieve", !.kind = r.kind,
                                !.hash = hash, !.bytes = r.bytes,
                                !.reads = r.reads]
        /\ UNCHANGED <<hash_to_path, hash_to_metadata, dedup_stats, chunk_files,
                       meta_files, now, hist, mvars, bvars, cvars, avars, boot,
                       race, svars>>

\* ------------------------------------------------------------ filter/bloom
\* -ln(fp_rate) / ln(2)^2 in units of 1/10000, for the rates used here; the
\* source computes it in f64
BitsPerItem(fp_rate) ==
    CASE fp_rate = "1.0"   -> 0
      [] fp_rate = "0.5"   -> 14427
      [] fp_rate = "0.25"  -> 28854
      [] fp_rate = "0.125" -> 43281
      [] fp_rate = "0.01"  -> 95851

\* ceil(a / b) for a >= 0, b > 0
CeilDiv(a, b) == (a + b - 1) \div b

\* m = ceil(-n * ln(p) / ln(2)^2)
BloomM(expected_items, fp_rate) ==
    CeilDiv(expected_items * BitsPerItem(fp_rate), 10000)

\* k = ceil((m / n) * ln(2)), ln(2) = 0.6931
BloomK(m, expected_items) == CeilDiv(m * 6931, expected_items * 10000)

\* vec![Sha256, Sha512, Sha3_256].into_iter().take(k).collect()
BloomHashers(k) ==
    SubSeq(<<"Sha256", "Sha512", "Sha3_256">>, 1, IF k < 3 THEN k ELSE 3)

\* BloomFilter::new; bits, a Vec<bool> of m entries, is kept as the set of the
\* indices in 0..m-1 whose entry is true
BloomNew(expected_items, fp_rate) ==
    LET m == BloomM(expected_items, fp_rate)
        k == BloomK(m, expected_items)
    IN  [bits |-> {}, hashers |-> BloomHashers(k), size |-> m, num_items |-> 0]

RECURSIVE FoldBytes(_, _, _, _)
\* `for &b in &hash.bytes[..8] { val = (val << 8) | b }` followed by
\* `val % size`; the reduction is applied at every byte, which gives the same
\* index because eight bytes do not overflow the u64
FoldBytes(bytes, i, val, size) ==
    IF i > Len(bytes) \/ i > 8
    THEN val % size
    ELSE FoldBytes(bytes, i + 1, (val * 256 + bytes[i]) % size, size)

\* BloomFilter::hash_to_index
HashToIndex(filter, hash) == FoldBytes(hash.bytes, 1, 0, filter.size)

\* the indices add sets and contains tests for an item
BloomIndices(filter, item) ==
    {HashToIndex(filter, Compute(item, filter.hashers[i])) :
        i \in 1..Len(filter.hashers)}

\* BloomAdd if the loop were left after the first hasher
BloomAddFirstOnly(filter, item) ==
    [filter EXCEPT
        !.bits = @ \cup (IF Len(filter.hashers) = 0 THEN {}
                         ELSE {HashToIndex(filter,
                                           Compute(item, filter.hashers[1]))}),
        !.num_items = @ + 1]

\* BloomAdd if it flipped the bits (bits[idx] = !bits[idx]) instead of
\* setting them
BloomAddToggle(filter, item) ==
    [filter EXCEPT
        !.bits = (@ \ BloomIndices(filter, item))
                    \cup (BloomIndices(filter, item) \ @),
        !.num_items = @ + 1]

\* BloomFilter::add
BloomAdd(filter, item) ==
    [filter EXCEPT !.bits = @ \cup BloomIndices(filter, item),
                   !.num_items = @ + 1]

\* BloomFilter::contains
BloomContains(filter, item) ==
    \A idx \in BloomIndices(filter, item) : idx \in filter.bits

\* ------------------------------------------------------- crypto/commitment
\* the length of the nonce, `vec![0u8; 32]`, scaled down
NONCE_LEN == 2

\* the body of Commitment::commit once the nonce is drawn
Commit(secret, nonce) ==
    [hash |-> Compute(secret \o nonce, "Sha3_256"), nonce |-> nonce]

\* CommitmentVerify if the nonce were put in front of the secret
CommitmentVerifyNonceFirst(c, secret) ==
    Compute(c.nonce \o secret, "Sha3_256") = c.hash

\* Commitment::verify
CommitmentVerify(c, secret) ==
    Compute(secret \o c.nonce, "Sha3_256") = c.hash

\* -------------------------------------------------------- auth/authenticator
\* path.to_string_lossy().as_bytes() for the paths used here
PathBytes(path) ==
    CASE path = "a" -> <<97>>
      [] path = "b" -> <<98>>
      [] path = "c" -> <<99>>

\* FileAuthenticator::new
AuthNew == [known_files |-> <<>>, bloom |-> BloomNew(1000, "0.01")]

\* the outcome of File::open(path)? and read_to_end over the files there are
FileRead(files, path) ==
    IF path \in DOMAIN files THEN [kind |-> "Ok", data |-> files[path]]
                             ELSE [kind |-> "IoError", data |-> <<>>]

\* RegisterEntry if the registry kept the digest of the first registration
\* (entry(path).or_insert(hash))
RegisterEntryKeepFirst(a, path, data) ==
    [known_files |-> IF path \in DOMAIN a.known_files THEN a.known_files
                     ELSE Put(a.known_files, path, Compute(data, "Sha256")),
     bloom |-> BloomAdd(a.bloom, PathBytes(path))]

\* register, lines 33-35, once the file was read
RegisterEntry(a, path, data) ==
    [known_files |-> Put(a.known_files, path, Compute(data, "Sha256")),
     bloom |-> BloomAdd(a.bloom, PathBytes(path))]

\* FileAuthenticator::verify
Verify(a, files, path) ==
    IF path \notin DOMAIN a.known_files
    THEN [kind |-> "NotRegistered", result |-> FALSE]
    ELSE LET old_hash == a.known_files[path]
             read == FileRead(files, path)
         IN  IF read.kind /= "Ok"
             THEN [kind |-> "IoError", result |-> FALSE]
             ELSE [kind |-> "Ok",
                   result |-> old_hash = Compute(read.data, "Sha256")]

\* QuickCheck if it also asked whether the file is there
QuickCheckIfPresent(a, path) ==
    path \in DOMAIN watch_files /\ BloomContains(a.bloom, PathBytes(path))

\* FileAuthenticator::quick_check
QuickCheck(a, path) == BloomContains(a.bloom, PathBytes(path))

\* ----------------------------------------------- db/database, service
\* Database after init_schema on an empty file: no users, no files
DatabaseNew == [users |-> <<>>, files |-> {}, next_user |-> 1, next_file |-> 1]

\* Database::get_user_by_username: Option<User>, the user's id
GetUserByUsername(db, username) ==
    IF username \in DOMAIN db.users THEN <<db.users[username]>> ELSE <<>>

\* Database::create_user: INSERT INTO users, username is UNIQUE
CreateUser(db, username) ==
    IF username \in DOMAIN db.users
    THEN [kind |-> "DbError", db |-> db]
    ELSE [kind |-> "Ok",
          db |-> [db EXCEPT !.users = Put(@, username, db.next_user),
                            !.next_user = @ + 1]]

\* Database::save_file: a plain INSERT INTO files, which the table's
\* UNIQUE(hash, owner_id) refuses when the owner has a row for the hash
SaveFile(db, hash, filename, size, owner_id, chunks, merkle_root) ==
    IF \E r \in db.files : r.hash = ToHex(hash) /\ r.owner_id = owner_id
    THEN [kind |-> "DbError", db |-> db]
    ELSE [kind |-> "Ok",
          db |-> [db EXCEPT
                     !.files = @ \cup {[id |-> db.next_file,
                                        hash |-> ToHex(hash),
                                        filename |-> filename,
                                        size |-> size,
                                        owner_id |-> owner_id,
                                        chunks |-> chunks,
                                        merkle_root |-> ToHex(merkle_root)]},
                     !.next_file = @ + 1]]

\* ------------------------------------------------------------ environment
\* payloads: for every length up to MaxLen, two patterns of the bytes 0, 1, 2
Pattern(k, f) == [i \in 1..k |-> (i + f) % 3]
Payloads == {Pattern(k, f) : k \in 0..MaxLen, f \in {0, 1}}

Callers == {[filename |-> "a.txt", owner |-> "alice"],
            [filename |-> "b.txt", owner |-> "bob"]}

\* hashes a caller may present to retrieve_file: the content hashes of the
\* payloads of the first pattern, stored or not
Queries == {Compute(Pattern(k, 0), "Sha256") : k \in 0..MaxLen}

\* StorageEngine::new
EngineNew ==
    /\ hash_to_path = <<>>
    /\ hash_to_metadata = <<>>
    /\ dedup_stats = [total_files |-> 0, unique_files |-> 0,
                      total_bytes |-> 0, saved_bytes |-> 0]

EngineInit ==
    /\ EngineNew
    /\ chunk_files = <<>>
    /\ meta_files = <<>>
    /\ now = 1
    /\ ret = NoRet
    /\ hist = [n |-> 0, bytes |-> 0, dupbytes |-> 0, first |-> <<>>,
               returned |-> {}, blobs |-> <<>>, tampers |-> 0,
               resubmitted |-> {}]

MerkleIdle ==
    /\ tree = <<>>
    /\ proof = <<>>
    /\ verified = <<>>
    /\ mk = [pc |-> "idle", leaves |-> <<>>, idx |-> 0]

\* no filter, commitment or authenticator is in use, no engine was
\* constructed before this one, and no call is in progress
NoBloomLog == [n |-> 0, fp |-> "1.0", m |-> 0, k |-> 0, added |-> {},
               adds |-> 0, op |-> "none", item |-> <<>>, result |-> FALSE]

BloomIdle ==
    /\ bloom = [bits |-> {}, hashers |-> <<>>, size |-> 0, num_items |-> 0]
    /\ bloom_log = NoBloomLog

CommitIdle ==
    /\ commitment = <<>>
    /\ commit_log = <<>>

AuthIdle ==
    /\ auth = <<>>
    /\ watch_files = <<>>
    /\ auth_log = <<>>

\* no service is running on top of the engine
ServiceIdle ==
    /\ database = <<>>
    /\ upload = <<>>

EngineAlone ==
    /\ boot = <<>>
    /\ race = <<>>

Init ==
    /\ EngineInit
    /\ ServiceIdle
    /\ MerkleIdle
    /\ BloomIdle
    /\ CommitIdle
    /\ AuthIdle
    /\ EngineAlone

Store ==
    \E data \in Payloads, c \in Callers :
        /\ hist.n < MaxCalls
        /\ StoreFile(data, c.filename, c.owner)

Fetch == \E hash \in Queries : RetrieveFile(hash)

Next == Store \/ Fetch

Spec == Init /\ [][Next]_vars

\* ------------------------------------------------- blobs altered from outside
\* payloads of the corruption scenarios: empty, one short chunk, one full
\* chunk, and three chunks of which the last is short
TamperPayloads == {Pattern(k, 0) : k \in {0, 1, CHUNK_SIZE, 2 * CHUNK_SIZE + 1}}

\* ways to alter a blob: change one byte, drop the last byte, add a byte
Altered(bytes) ==
    {[bytes EXCEPT ![i] = (@ + 1) % 3] : i \in 1..Len(bytes)}
        \cup {SubSeq(bytes, 1, Len(bytes) - 1) : i \in 1..Len(bytes)}
        \cup {Append(bytes, 0)}

\* something other than the engine overwrites a chunk blob
Tamper ==
    \E p \in DOMAIN chunk_files : \E b \in Altered(chunk_files[p]) :
        /\ hist.tampers < MaxTampers
        /\ chunk_files' = [chunk_files EXCEPT ![p] = b]
        /\ hist' = [hist EXCEPT !.tampers = @ + 1]
        /\ ret' = NoRet
        /\ UNCHANGED <<hash_to_path, hash_to_metadata, dedup_stats, meta_files,
                       now, mvars, bvars, cvars, avars, boot, race, svars>>

TamperStore ==
    \E data \in TamperPayloads :
        /\ hist.n < MaxTamperStores
        /\ StoreFile(data, "a.txt", "alice")

TamperFetch ==
    \E data \in TamperPayloads : RetrieveFile(Compute(data, "Sha256"))

TamperNext == TamperStore \/ Tamper \/ TamperFetch

TamperSpec == Init /\ [][TamperNext]_vars

\* --------------------------------------------------- Merkle tree on its own
LeafDigests == {Compute(<<b>>, "Sha256") : b \in {0, 1}}
LeafSeqs == UNION {[1..n -> LeafDigests] : n \in 0..MaxLeaves}

MerkleInit ==
    /\ EngineInit
    /\ ServiceIdle
    /\ tree = <<>>
    /\ proof = <<>>
    /\ verified = <<>>
    /\ mk \in {[pc |-> "new", leaves |-> l, idx |-> 0] : l \in LeafSeqs}
    /\ BloomIdle
    /\ CommitIdle
    /\ AuthIdle
    /\ EngineAlone

\* MerkleTree::new(&leaves)
MkNew ==
    /\ mk.pc = "new"
    /\ tree' = <<MerkleNew(mk.leaves)>>
    /\ mk' = [mk EXCEPT !.pc = "built"]
    /\ UNCHANGED <<proof, verified>>
    /\ UNCHANGED <<evars, bvars, cvars, avars, boot, race, svars>>

\* tree.generate_proof(i), for indices in and out of range (&self)
MkProof ==
    \E i \in 0..(MaxLeaves + 1) :
        /\ mk.pc \in {"built", "proved", "verified"}
        /\ proof' = <<GenerateProof(tree[1], i)>>
        /\ mk' = [mk EXCEPT !.pc = "proved", !.idx = i]
        /\ UNCHANGED <<tree, verified>>
        /\ UNCHANGED <<evars, bvars, cvars, avars, boot, race, svars>>

\* MerkleTree::verify_proof(&proof) on the proof just generated
MkVerify ==
    /\ mk.pc = "proved"
    /\ proof[1].tag = "Some"
    /\ verified' = <<VerifyProof(proof[1].val[1])>>
    /\ mk' = [mk EXCEPT !.pc = "verified"]
    /\ UNCHANGED <<tree, proof>>
    /\ UNCHANGED <<evars, bvars, cvars, avars, boot, race, svars>>

MerkleNext == MkNew \/ MkProof \/ MkVerify

MerkleSpec == MerkleInit /\ [][MerkleNext]_vars

\* ---------------------------------------------------- Bloom filter on its own
FpRates == {"1.0", "0.5", "0.25", "0.125", "0.01"}

\* items handed to add and contains
BloomItems == {<<0>>, <<1>>, <<2>>, <<0, 1>>}

BloomInit ==
    /\ EngineInit
    /\ ServiceIdle
    /\ MerkleIdle
    /\ CommitIdle
    /\ AuthIdle
    /\ EngineAlone
    /\ \E n \in 1..MaxExpected, fp \in FpRates :
          /\ bloom = BloomNew(n, fp)
          /\ bloom_log = [NoBloomLog EXCEPT
                             !.n = n, !.fp = fp, !.m = BloomM(n, fp),
                             !.k = BloomK(BloomM(n, fp), n)]

\* bloom.add(item)
BfAdd ==
    \E item \in BloomItems :
        /\ bloom_log.adds < MaxAdds
        /\ bloom' = BloomAdd(bloom, item)
        /\ bloom_log' = [bloom_log EXCEPT !.added = @ \cup {item},
                                          !.adds = @ + 1,
                                          !.op = "add", !.item = item,
                                          !.result = FALSE]
        /\ UNCHANGED <<evars, mvars, cvars, avars, boot, race, svars>>

\* bloom.contains(item) (&self)
BfContains ==
    \E item \in BloomItems :
        /\ bloom_log' = [bloom_log EXCEPT !.op = "contains", !.item = item,
                                          !.result = BloomContains(bloom, item)]
        /\ UNCHANGED <<bloom, evars, mvars, cvars, avars, boot, race,
                       svars>>

BloomNext == BfAdd \/ BfContains

BloomSpec == BloomInit /\ [][BloomNext]_vars

\* ------------------------------------------------------ commitment on its own
Secrets == UNION {[1..k -> 0..1] : k \in 0..MaxSecretLen}

\* what rand::thread_rng().fill_bytes may put in the nonce
Nonces == [1..NONCE_LEN -> 0..1]

CommitInit ==
    /\ EngineInit
    /\ ServiceIdle
    /\ MerkleIdle
    /\ BloomIdle
    /\ AuthIdle
    /\ EngineAlone
    /\ \E secret \in Secrets, nonce \in Nonces :
          /\ commitment = Commit(secret, nonce)
          /\ commit_log = [secret |-> secret, op |-> "commit", arg |-> secret,
                           result |-> FALSE]

\* Commitment::commit(secret): a new commitment takes the place of the old one
CmCommit ==
    \E secret \in Secrets, nonce \in Nonces :
        /\ commitment' = Commit(secret, nonce)
        /\ commit_log' = [secret |-> secret, op |-> "commit", arg |-> secret,
                          result |-> FALSE]
        /\ UNCHANGED <<evars, mvars, bvars, avars, boot, race, svars>>

\* commitment.verify(secret) (&self)
CmVerify ==
    \E secret \in Secrets :
        /\ commit_log' = [commit_log EXCEPT
                             !.op = "verify", !.arg = secret,
                             !.result = CommitmentVerify(commitment, secret)]
        /\ UNCHANGED <<commitment, evars, mvars, bvars, avars, boot, race,
                       svars>>

CommitNext == CmCommit \/ CmVerify

CommitSpec == CommitInit /\ [][CommitNext]_vars

\* --------------------------------------------------- authenticator on its own
Paths == {"a", "b"}

\* contents a file in the watched directory may have
Contents == {<<>>, <<0>>, <<1>>}

\* ghost: the content each path had at its latest successful register, the
\* number of successful registers of each path, and the latest call with its
\* outcome
NoAuthLog == [registered |-> <<>>, regs |-> [p \in Paths |-> 0],
              op |-> "none", path |-> "a", kind |-> "none", result |-> FALSE]

AuthInit ==
    /\ EngineInit
    /\ ServiceIdle
    /\ MerkleIdle
    /\ BloomIdle
    /\ CommitIdle
    /\ EngineAlone
    /\ auth = AuthNew
    /\ watch_files = <<>>
    /\ auth_log = NoAuthLog

\* something writes a file of the watched directory (creates or overwrites)
FileWrite ==
    \E path \in Paths, data \in Contents :
        /\ watch_files' = Put(watch_files, path, data)
        /\ auth_log' = [auth_log EXCEPT !.op = "none", !.kind = "none",
                                        !.result = FALSE]
        /\ UNCHANGED <<auth, evars, mvars, bvars, cvars, boot, race, svars>>

\* something removes a file of the watched directory
FileDelete ==
    \E path \in DOMAIN watch_files :
        /\ watch_files' = [q \in DOMAIN watch_files \ {path} |-> watch_files[q]]
        /\ auth_log' = [auth_log EXCEPT !.op = "none", !.kind = "none",
                                        !.result = FALSE]
        /\ UNCHANGED <<auth, evars, mvars, bvars, cvars, boot, race, svars>>

\* FileAuthenticator::register(path)
AuthRegister ==
    \E path \in Paths :
        LET read == FileRead(watch_files, path)
        IN  /\ auth.bloom.num_items < MaxRegisters
            /\ IF read.kind /= "Ok"
               THEN /\ auth' = auth
                    /\ auth_log' = [auth_log EXCEPT
                                       !.op = "register", !.path = path,
                                       !.kind = read.kind, !.result = FALSE]
               ELSE /\ auth' = RegisterEntry(auth, path, read.data)
                    /\ auth_log' = [auth_log EXCEPT
                                       !.registered = Put(@, path, read.data),
                                       !.regs[path] = @ + 1,
                                       !.op = "register", !.path = path,
                                       !.kind = "Ok", !.result = FALSE]
            /\ UNCHANGED <<watch_files, evars, mvars, bvars, cvars, boot, race,
                           svars>>

\* FileAuthenticator::verify(path) (&self)
AuthVerify ==
    \E path \in Paths :
        LET out == Verify(auth, watch_files, path)
        IN  /\ auth_log' = [auth_log EXCEPT
                               !.op = "verify", !.path = path,
                               !.kind = out.kind, !.result = out.result]
            /\ UNCHANGED <<auth, watch_files, evars, mvars, bvars, cvars,
                           boot, race, svars>>

\* FileAuthenticator::quick_check(path) (&self)
AuthQuickCheck ==
    \E path \in Paths :
        /\ auth_log' = [auth_log EXCEPT
                           !.op = "quick_check", !.path = path,
                           !.kind = "Ok", !.result = QuickCheck(auth, path)]
        /\ UNCHANGED <<auth, watch_files, evars, mvars, bvars, cvars,
                       boot, race, svars>>

AuthNext ==
    \/ FileWrite
    \/ FileDelete
    \/ AuthRegister
    \/ AuthVerify
    \/ AuthQuickCheck

AuthSpec == AuthInit /\ [][AuthNext]_vars

\* ---------------------------------- a new engine over a used storage directory
\* boot counts the engines constructed after the first and keeps the contents
\* earlier engines stored; hist.n .. hist.returned describe the present
\* engine's calls only
RestartInit ==
    /\ EngineInit
    /\ ServiceIdle
    /\ MerkleIdle
    /\ BloomIdle
    /\ CommitIdle
    /\ AuthIdle
    /\ boot = [restarts |-> 0, prior |-> {}]
    /\ race = <<>>

\* ghost bookkeeping of a restart
Rebooted ==
    /\ boot' = [restarts |-> boot.restarts + 1,
                prior |-> boot.prior \cup DOMAIN hist.first]
    /\ hist' = [hist EXCEPT !.n = 0, !.bytes = 0, !.dupbytes = 0,
                            !.first = <<>>, !.returned = {}]
    /\ ret' = NoRet

\* Restart if StorageEngine::new loaded the sidecars found in the directory
\* into the indices
RestartWithScan ==
    /\ boot.restarts < MaxRestarts
    /\ hash_to_path' = [hex \in {p.hex : p \in DOMAIN meta_files} |->
                           MetaPath(hex)]
    /\ hash_to_metadata' = [hex \in {p.hex : p \in DOMAIN meta_files} |->
                               meta_files[MetaPath(hex)].json]
    /\ dedup_stats' = [total_files |-> 0, unique_files |-> 0,
                       total_bytes |-> 0, saved_bytes |-> 0]
    /\ Rebooted
    /\ UNCHANGED <<chunk_files, meta_files, now, mvars, bvars, cvars, avars,
                   race, svars>>

\* the engine is dropped and StorageEngine::new is called on the same
\* directory: create_dir_all leaves the files there, the maps start empty and
\* the counters at zero
Restart ==
    /\ boot.restarts < MaxRestarts
    /\ hash_to_path' = <<>>
    /\ hash_to_metadata' = <<>>
    /\ dedup_stats' = [total_files |-> 0, unique_files |-> 0,
                       total_bytes |-> 0, saved_bytes |-> 0]
    /\ Rebooted
    /\ UNCHANGED <<chunk_files, meta_files, now, mvars, bvars, cvars, avars,
                   race, svars>>

RestartStore ==
    \E data \in TamperPayloads :
        /\ now <= MaxRestartStores
        /\ StoreFile(data, "a.txt", "alice")

RestartFetch ==
    \E data \in TamperPayloads : RetrieveFile(Compute(data, "Sha256"))

RestartNext == RestartStore \/ Restart \/ RestartFetch

RestartSpec == RestartInit /\ [][RestartNext]_vars

\* ------------------------------------- store_file calls that are not serialized
\* Two tasks call store_file on one engine with nothing between them to make
\* the calls exclusive.  A call is taken in the three blocks of its code: the
\* known-hash check with the whole duplicate path (lines 43-53), the writing
\* of the chunk blobs and the sidecar (lines 55-82), and the registration in
\* the indices and counters (lines 84-95).
Tasks == {1, 2}

TaskCaller(t) ==
    IF t = 1 THEN [filename |-> "a.txt", owner |-> "alice"]
             ELSE [filename |-> "b.txt", owner |-> "bob"]

IdleTask == [pc |-> "idle", data |-> <<>>, path |-> "none", meta |-> <<>>,
             calls |-> 0]

\* ghost: writes counts the times each file was written, overlapped tells
\* whether a call began while another was in progress, and doubled counts
\* the registrations that found the hash registered already
RaceInit ==
    /\ EngineInit
    /\ ServiceIdle
    /\ MerkleIdle
    /\ BloomIdle
    /\ CommitIdle
    /\ AuthIdle
    /\ boot = <<>>
    /\ race = [task |-> [t \in Tasks |-> IdleTask], writes |-> <<>>,
               overlapped |-> FALSE, doubled |-> 0]

InProgress(t) == race.task[t].pc \in {"write", "register"}

\* store_file, lines 43-53: the hash is computed and looked up; a known hash
\* is counted as a duplicate and the call returns, an unknown one goes on
RaceCheck(t) ==
    \E data \in TamperPayloads :
        LET hex == ToHex(Compute(data, "Sha256"))
            known == hex \in DOMAIN hash_to_metadata
            busy == \E u \in Tasks \ {t} : InProgress(u)
        IN  /\ race.task[t].pc \in {"idle", "done"}
            /\ race.task[t].calls < MaxRaceCalls
            /\ dedup_stats' =
                  IF known
                  THEN [dedup_stats EXCEPT !.total_files = @ + 1,
                                           !.total_bytes = @ + Len(data),
                                           !.saved_bytes = @ + Len(data)]
                  ELSE dedup_stats
            /\ race' = [race EXCEPT
                  !.task[t] = [pc |-> IF known THEN "done" ELSE "write",
                               data |-> data,
                               path |-> IF known THEN "dup" ELSE "new",
                               meta |-> IF known THEN <<hash_to_metadata[hex]>>
                                                 ELSE <<>>,
                               calls |-> @.calls + 1],
                  !.overlapped = @ \/ busy]
            /\ UNCHANGED <<hash_to_path, hash_to_metadata, chunk_files,
                           meta_files, now, ret, hist, mvars, bvars, cvars,
                           avars, boot, svars>>

\* store_file, lines 55-82: the chunk blobs and the sidecar are written
RaceWrite(t) ==
    LET data == race.task[t].data
        hash == Compute(data, "Sha256")
        hex == ToHex(hash)
        parts == Chunks(data)
        chunks == [i \in 1..Len(parts) |-> Compute(parts[i], "Sha256")]
        written == [p \in {ChunkPath(hex, i - 1) : i \in 1..Len(parts)} |->
                       parts[p.i + 1]]
        merkle_tree == MerkleNew(chunks)
        metadata == [path |-> TaskCaller(t).filename, size |-> Len(data),
                     hash |-> hash, chunks |-> chunks,
                     merkle_root |-> MerkleRoot(merkle_tree),
                     created_at |-> now, modified_at |-> now,
                     owner |-> TaskCaller(t).owner]
        meta_path == MetaPath(hex)
        touched == DOMAIN written \cup {meta_path}
    IN  /\ race.task[t].pc = "write"
        /\ chunk_files' = [p \in DOMAIN chunk_files \cup DOMAIN written |->
                              IF p \in DOMAIN written THEN written[p]
                                                      ELSE chunk_files[p]]
        /\ meta_files' = Put(meta_files, meta_path, [json |-> metadata])
        /\ race' = [race EXCEPT
              !.task[t].pc = "register",
              !.task[t].meta = <<metadata>>,
              !.writes = [p \in DOMAIN @ \cup touched |->
                             (IF p \in DOMAIN @ THEN @[p] ELSE 0)
                                + (IF p \in touched THEN 1 ELSE 0)]]
        /\ UNCHANGED <<hash_to_path, hash_to_metadata, dedup_stats, now, ret,
                       hist, mvars, bvars, cvars, avars, boot, svars>>

\* RaceRegister if the block looked the hash up again and counted the call
\* as a duplicate when another call had registered it meanwhile
RaceRegisterRecheck(t) ==
    LET data == race.task[t].data
        hex == ToHex(Compute(data, "Sha256"))
        known == hex \in DOMAIN hash_to_metadata
    IN  /\ race.task[t].pc = "register"
        /\ hash_to_path' = IF known THEN hash_to_path
                           ELSE Put(hash_to_path, hex, MetaPath(hex))
        /\ hash_to_metadata' = IF known THEN hash_to_metadata
                               ELSE Put(hash_to_metadata, hex,
                                        race.task[t].meta[1])
        /\ dedup_stats' =
              IF known
              THEN [dedup_stats EXCEPT !.total_files = @ + 1,
                                       !.total_bytes = @ + Len(data),
                                       !.saved_bytes = @ + Len(data)]
              ELSE [dedup_stats EXCEPT !.total_files = @ + 1,
                                       !.unique_files = @ + 1,
                                       !.total_bytes = @ + Len(data)]
        /\ race' = [race EXCEPT !.task[t].pc = "done",
                                !.doubled = @ + (IF known THEN 1 ELSE 0)]
        /\ UNCHANGED <<chunk_files, meta_files, now, ret, hist, mvars, bvars,
                       cvars, avars, boot, svars>>

\* store_file, lines 84-95: both maps get the entry (HashMap::insert replaces
\* one that is there), the counters count a new file, the metadata is returned
RaceRegister(t) ==
    LET data == race.task[t].data
        hex == ToHex(Compute(data, "Sha256"))
        known == hex \in DOMAIN hash_to_metadata
    IN  /\ race.task[t].pc = "register"
        /\ hash_to_path' = Put(hash_to_path, hex, MetaPath(hex))
        /\ hash_to_metadata' = Put(hash_to_metadata, hex, race.task[t].meta[1])
        /\ dedup_stats' = [dedup_stats EXCEPT !.total_files = @ + 1,
                                              !.unique_files = @ + 1,
                                              !.total_bytes = @ + Len(data)]
        /\ race' = [race EXCEPT !.task[t].pc = "done",
                                !.doubled = @ + (IF known THEN 1 ELSE 0)]
        /\ UNCHANGED <<chunk_files, meta_files, now, ret, hist, mvars, bvars,
                       cvars, avars, boot, svars>>

RaceNext == \E t \in Tasks : RaceCheck(t) \/ RaceWrite(t) \/ RaceRegister(t)

RaceSpec == RaceInit /\ [][RaceNext]_vars

\* ------------------------------------------------- the service on the engine
Usernames == {"alice", "bob"}

\* file names, joined to the watched directory by upload_file
Filenames == {"a", "b"}

UploadPayloads == {Pattern(1, 0), Pattern(2 * CHUNK_SIZE + 1, 0)}

\* ghost: the pairs of owner and content uploaded with success, and the last
\* call on the service with its outcome; resub tells whether the owner had
\* uploaded the content before the call
NoUpload == [done |-> {}, op |-> "none", kind |-> "none", input |-> <<>>,
             meta |-> <<>>, resub |-> FALSE]

\* FileSharingService::new over an empty database and empty directories
UploadInit ==
    /\ EngineInit
    /\ MerkleIdle
    /\ BloomIdle
    /\ CommitIdle
    /\ EngineAlone
    /\ auth = AuthNew
    /\ watch_files = <<>>
    /\ auth_log = NoAuthLog
    /\ database = DatabaseNew
    /\ upload = NoUpload

\* FileSharingService::register_user
RegisterUser ==
    \E username \in Usernames :
        LET out == CreateUser(database, username)
        IN  /\ database' = out.db
            /\ upload' = [upload EXCEPT !.op = "register_user",
                                        !.kind = out.kind,
                                        !.input = <<username>>,
                                        !.meta = <<>>, !.resub = FALSE]
            /\ UNCHANGED <<evars, mvars, bvars, cvars, avars, boot, race>>

\* upload_file, lines 82-83: the owner is not a user
UploadUnknownUser(data, filename, owner) ==
    /\ GetUserByUsername(database, owner) = <<>>
    /\ upload' = [upload EXCEPT !.op = "upload", !.kind = "UserNotFound",
                                !.input = <<data, filename, owner>>,
                                !.meta = <<>>, !.resub = FALSE]
    /\ UNCHANGED <<evars, avars, database>>

\* upload_file, lines 86-104: store_file, then save_file, then the copy into
\* the watched directory and its registration; `?` ends the call at the first
\* error with what was done before it left in place
UploadStored(data, filename, owner) ==
    /\ GetUserByUsername(database, owner) /= <<>>
    /\ \/ StoreDuplicate(data, filename, owner)
       \/ StoreNew(data, filename, owner)
    /\ now' = now + 1
    /\ LET user == GetUserByUsername(database, owner)[1]
           metadata == ret'.meta[1]
           saved == SaveFile(database, metadata.hash, filename, metadata.size,
                             user, Len(metadata.chunks), metadata.merkle_root)
           log == [upload EXCEPT !.op = "upload",
                                 !.input = <<data, filename, owner>>,
                                 !.resub = <<owner, data>> \in upload.done]
       IN  IF saved.kind /= "Ok"
           THEN /\ upload' = [log EXCEPT !.kind = saved.kind, !.meta = <<>>]
                /\ UNCHANGED <<avars, database>>
           ELSE /\ database' = saved.db
                /\ watch_files' = Put(watch_files, filename, data)
                /\ auth' = RegisterEntry(auth, filename, data)
                /\ auth_log' = [auth_log EXCEPT
                                   !.registered = Put(@, filename, data),
                                   !.regs[filename] = @ + 1,
                                   !.op = "register", !.path = filename,
                                   !.kind = "Ok", !.result = FALSE]
                /\ upload' = [log EXCEPT !.kind = "Ok", !.meta = <<metadata>>,
                                         !.done = @ \cup {<<owner, data>>}]

\* FileSharingService::upload_file
UploadFile ==
    \E data \in UploadPayloads, filename \in Filenames, owner \in Usernames :
        /\ now <= MaxUploads
        /\ \/ UploadUnknownUser(data, filename, owner)
           \/ UploadStored(data, filename, owner)
        /\ UNCHANGED <<mvars, bvars, cvars, boot, race>>

UploadNext == RegisterUser \/ UploadFile

UploadSpec == UploadInit /\ [][UploadNext]_vars

\* ------------------------------------ lookups by hashes of any algorithm tag
\* HashValue has public fields: a caller can pair any tag with any bytes
Tagged(algo, bytes) == [algo |-> algo, bytes |-> bytes]

\* the digests of the payloads under every algorithm, and the bytes of their
\* primary digests under every tag
LookupQueries ==
    {Compute(d, a) : d \in TamperPayloads, a \in HashAlgo}
        \cup {Tagged(a, Compute(d, "Sha256").bytes) :
                 d \in TamperPayloads, a \in HashAlgo}

LookupStore ==
    \E data \in TamperPayloads :
        /\ hist.n < MaxLookupStores
        /\ StoreFile(data, "a.txt", "alice")

LookupFetch == \E hash \in LookupQueries : RetrieveFile(hash)

LookupNext == LookupStore \/ LookupFetch

LookupSpec == Init /\ [][LookupNext]_vars

\* ---------------------------------------------- sidecar writes that may fail
FailPayloads == {Pattern(k, 0) : k \in {1, CHUNK_SIZE, 2 * CHUNK_SIZE + 1}}

FailStore ==
    \E data \in FailPayloads :
        /\ now <= MaxFailCalls
        /\ StoreFile(data, "a.txt", "alice")

FailSidecar ==
    \E data \in FailPayloads :
        /\ now <= MaxFailCalls
        /\ StoreSidecarFails(data, "a.txt", "alice")

FailFetch ==
    \E data \in FailPayloads : RetrieveFile(Compute(data, "Sha256"))

FailNext == FailStore \/ FailSidecar \/ FailFetch

FailSpec == Init /\ [][FailNext]_vars

\* ================================================================ claims
\* the hex key of a content in the engine's maps
KeyOf(data) == ToHex(Compute(data, "Sha256"))

\* the blobs of the file stored under hex, as chunk paths
BlobsOf(hex) == {p \in DOMAIN hist.blobs : p.hex = hex}

\* C1: round trip.  Once a store_file call has returned metadata M for data,
\* retrieve_file(M.hash) returns Ok with exactly data, whatever store_file
\* calls were made in between (no blob is altered from outside in Spec).
C1_RoundTrip ==
    \A pair \in hist.returned :
        (ret.op = "retrieve" /\ ret.hash = pair[2].hash)
            => (ret.kind = "Ok" /\ ret.bytes = pair[1])

\* a three-chunk payload stored by the first call is retrieved after a
\* second store_file call
C1_Witness ==
    /\ ret.op = "retrieve"
    /\ ret.kind = "Ok"
    /\ hist.n = 2
    /\ Len(ret.bytes) = 2 * CHUNK_SIZE + 1
    /\ ret.bytes \in DOMAIN hist.first
    /\ hist.first[ret.bytes].at = 1

\* the empty payload makes the round trip too
C1_WitnessEmpty ==
    /\ ret.op = "retrieve"
    /\ ret.kind = "Ok"
    /\ ret.bytes = <<>>
    /\ <<>> \in DOMAIN hist.first

\* C2, every state: each metadata a store_file call returned for a content is
\* the one made for its first submission (hash of the content, first caller's
\* filename and owner, time of the first call) and is the one the index
\* holds; the index and the sidecars hold one entry per distinct content.
C2_OneInstance ==
    /\ \A pair \in hist.returned :
          LET d == pair[1]
              m == pair[2]
          IN  /\ d \in DOMAIN hist.first
              /\ m.hash = Compute(d, "Sha256")
              /\ m.path = hist.first[d].filename
              /\ m.owner = hist.first[d].owner
              /\ m.created_at = hist.first[d].at
              /\ m.modified_at = hist.first[d].at
              /\ KeyOf(d) \in DOMAIN hash_to_metadata
              /\ hash_to_metadata[KeyOf(d)] = m
    /\ \A p, q \in hist.returned : p[1] = q[1] => p[2] = q[2]
    /\ DOMAIN hash_to_metadata = {KeyOf(d) : d \in DOMAIN hist.first}
    /\ DOMAIN hash_to_path = DOMAIN hash_to_metadata
    /\ DOMAIN meta_files = {MetaPath(k) : k \in DOMAIN hash_to_metadata}
    /\ Cardinality(DOMAIN hash_to_metadata) = Cardinality(DOMAIN hist.first)

\* C2, every step: a store_file call on content whose hash is already a key
\* writes no file, leaves both indices and the storage directory unchanged
\* and returns the indexed metadata.
C2_DuplicateStep ==
    (hist'.n = hist.n + 1 /\ ToHex(ret'.hash) \in DOMAIN hash_to_metadata)
        => /\ ret'.kind = "Ok"
           /\ ret'.wrote = {}
           /\ ret'.meta = <<hash_to_metadata[ToHex(ret'.hash)]>>
           /\ UNCHANGED <<hash_to_path, hash_to_metadata, chunk_files, meta_files>>

\* C2: at-most-once storage.
C2_AtMostOnce == []C2_OneInstance /\ [][C2_DuplicateStep]_vars

\* a resubmission under another filename and owner, at a later time, that
\* got the first caller's metadata back
C2_Witness ==
    /\ ret.op = "store"
    /\ ret.dup
    /\ ret.wrote = {}
    /\ ret.input[2] /= ret.meta[1].path
    /\ ret.input[3] /= ret.meta[1].owner
    /\ ret.meta[1].created_at < now - 1
    /\ Len(ret.meta[1].chunks) > 1

\* C3: counter accounting.  total_files is the number of store_file calls,
\* unique_files the number of distinct contents submitted, total_bytes the
\* bytes submitted over all calls, saved_bytes the bytes submitted by the
\* calls whose content had been submitted before.
C3_Counters ==
    /\ dedup_stats.total_files = hist.n
    /\ dedup_stats.unique_files = Cardinality(DOMAIN hist.first)
    /\ dedup_stats.total_bytes = hist.bytes
    /\ dedup_stats.saved_bytes = hist.dupbytes

\* a new store followed by a duplicate store of a non-empty payload
C3_Witness ==
    /\ hist.n = 2
    /\ dedup_stats.unique_files = 1
    /\ dedup_stats.saved_bytes > 0
    /\ dedup_stats.total_bytes = 2 * dedup_stats.saved_bytes
    /\ ret.op = "store"
    /\ ret.dup

\* some blob of the file stored under hex no longer holds what store_file
\* wrote
Corrupted(hex) == \E p \in BlobsOf(hex) : chunk_files[p] /= hist.blobs[p]

\* C4: corruption detection.  retrieve_file of a known hash, one of whose
\* chunk blobs differs from what store_file wrote, returns an integrity
\* failure (not not-found) and no bytes.
C4_CorruptionDetected ==
    (/\ ret.op = "retrieve"
     /\ ToHex(ret.hash) \in DOMAIN hash_to_metadata
     /\ Corrupted(ToHex(ret.hash)))
        => (ret.kind = "IntegrityViolation" /\ ret.bytes = <<>>)

\* the last chunk of a three-chunk file was altered: the two intact chunks
\* before it were read and verified, and nothing was returned
C4_Witness ==
    /\ ret.op = "retrieve"
    /\ ret.kind = "IntegrityViolation"
    /\ ret.reads = <<0, 1, 2>>
    /\ LET hex == ToHex(ret.hash)
       IN  /\ chunk_files[ChunkPath(hex, 0)] = hist.blobs[ChunkPath(hex, 0)]
           /\ chunk_files[ChunkPath(hex, 1)] = hist.blobs[ChunkPath(hex, 1)]
           /\ chunk_files[ChunkPath(hex, 2)] /= hist.blobs[ChunkPath(hex, 2)]

\* the digest of the hash last presented was never stored by this engine
NeverStored(hash) ==
    \A d \in DOMAIN hist.first : Compute(d, "Sha256").bytes /= hash.bytes

\* C5, every state: retrieve_file of a never-stored digest fails with
\* not-found, having read no chunk blob.
C5_NotFoundResult ==
    (ret.op = "retrieve" /\ NeverStored(ret.hash))
        => (ret.kind = "NotFound" /\ ret.reads = <<>> /\ ret.bytes = <<>>)

\* C5, every step: a retrieve_file call changes neither the indices, the
\* counters nor the storage directory.
C5_RetrieveStep ==
    (ret'.op = "retrieve" /\ hist'.n = hist.n)
        => UNCHANGED <<hash_to_path, hash_to_metadata, dedup_stats,
                       chunk_files, meta_files>>

\* C5: retrieve_file of an unknown hash.
C5_NotFound == []C5_NotFoundResult /\ [][C5_RetrieveStep]_vars

\* an unknown hash is presented to an engine that holds other files
C5_Witness ==
    /\ ret.op = "retrieve"
    /\ ret.kind = "NotFound"
    /\ NeverStored(ret.hash)
    /\ dedup_stats.unique_files = 2

\* the digest of the concatenation of two nodes' bytes
Pair(l, r) == Compute(l.bytes \o r.bytes, "Sha256")

\* C6: Merkle proof round trip.  For every non-empty leaf sequence and every
\* index in range, the proof generate_proof returns is accepted by
\* verify_proof.
C6_ProofRoundTrip ==
    (mk.pc = "verified" /\ mk.idx < Len(mk.leaves)) => verified = <<TRUE>>

\* C7, every state: generate_proof returns None, and does not panic, for
\* every index at or past the number of leaves, the empty tree included.
C7_NoneResult ==
    (mk.pc = "proved" /\ mk.idx >= Len(mk.leaves)) => proof = <<None>>

\* C7, every step: generate_proof leaves the tree as it was.
C7_ProofStep == (mk'.pc = "proved") => tree' = tree

\* C7: generate_proof out of range.
C7_OutOfRange == []C7_NoneResult /\ [][C7_ProofStep]_vars

\* index 0 of a tree built from no leaves
C7_Witness ==
    /\ mk.pc = "proved"
    /\ mk.leaves = <<>>
    /\ mk.idx = 0
    /\ proof = <<None>>

\* index len of a tree of several levels
C7_WitnessPastEnd ==
    /\ mk.pc = "proved"
    /\ Len(mk.leaves) = 3
    /\ mk.idx = 3
    /\ proof = <<None>>

\* C8: construction.  Level 0 is the leaves; a level of n > 1 nodes is
\* followed by one of ceil(n/2) nodes, node j being the digest of nodes 2j and
\* 2j+1 below it, or of node n-1 with itself when 2j+1 = n; the last level has
\* one node, the root.  For three leaves the root is
\* hash(hash(l0 ++ l1) ++ hash(l2 ++ l2)).
C8_Construction ==
    (mk.pc /= "new" /\ Len(mk.leaves) > 0) =>
        LET t == tree[1]
            L == t.levels
            n == Len(L)
        IN  /\ n >= 1
            /\ L[1] = mk.leaves
            /\ Len(L[n]) = 1
            /\ t.root = L[n][1]
            /\ \A k \in 1..(n - 1) :
                  LET lower == L[k]
                      upper == L[k + 1]
                  IN  /\ Len(lower) > 1
                      /\ Len(upper) = (Len(lower) + 1) \div 2
                      /\ \A j \in 0..(Len(upper) - 1) :
                            upper[j + 1] =
                                IF 2 * j + 1 < Len(lower)
                                THEN Pair(lower[2 * j + 1], lower[2 * j + 2])
                                ELSE Pair(lower[Len(lower)], lower[Len(lower)])
            /\ Len(mk.leaves) = 3 =>
                  t.root = Pair(Pair(mk.leaves[1], mk.leaves[2]),
                                Pair(mk.leaves[3], mk.leaves[3]))

\* a tree of five leaves: the levels of 5 and of 3 nodes are odd
C8_Witness ==
    /\ mk.pc = "built"
    /\ Len(mk.leaves) = 5
    /\ Len(tree[1].levels) = 4
    /\ Len(tree[1].levels[2]) = 3

\* three distinct-position leaves, the example of the claim
C8_WitnessThree ==
    /\ mk.pc = "built"
    /\ Len(mk.leaves) = 3
    /\ mk.leaves[1] /= mk.leaves[3]

\* C9: a tree built from one leaf has the single level of that leaf, and its
\* root is the leaf's digest itself.
C9_SingleLeaf ==
    (mk.pc /= "new" /\ Len(mk.leaves) = 1) =>
        /\ tree[1].levels = <<mk.leaves>>
        /\ tree[1].root = mk.leaves[1]
        /\ tree[1].leaves = mk.leaves

C9_Witness ==
    /\ mk.pc = "built"
    /\ Len(mk.leaves) = 1
    /\ Len(tree[1].levels) = 1

\* C10: a tree built from no leaves has the Sha256 digest of the empty byte
\* sequence as its root, no leaves and no levels.
C10_EmptyTree ==
    (mk.pc /= "new" /\ mk.leaves = <<>>) =>
        /\ tree[1].root = Compute(<<>>, "Sha256")
        /\ tree[1].leaves = <<>>
        /\ tree[1].levels = <<>>

C10_Witness ==
    /\ mk.pc = "built"
    /\ mk.leaves = <<>>
    /\ tree[1].root.algo = "Sha256"

\* C11: no false negatives.  contains(x) returns true for every item x added
\* by an earlier add call, whatever else was added before or after it.
C11_NoFalseNegative ==
    (bloom_log.op = "contains" /\ bloom_log.item \in bloom_log.added)
        => bloom_log.result = TRUE

\* an item added first, then two other items, is still found by a filter of
\* several hash functions
C11_Witness ==
    /\ bloom_log.op = "contains"
    /\ bloom_log.item \in bloom_log.added
    /\ bloom_log.result = TRUE
    /\ Cardinality(bloom_log.added) = 3
    /\ Len(bloom.hashers) = 3

\* contains answers true for an item never added (a false positive)
C11_WitnessFalsePositive ==
    /\ bloom_log.op = "contains"
    /\ bloom_log.item \notin bloom_log.added
    /\ bloom_log.result = TRUE
    /\ Len(bloom.hashers) > 0

\* C12, every step: no bit is cleared, the size and the hash algorithms stay
\* as constructed; an add call sets at most one bit per hash algorithm and
\* adds 1 to num_items; a contains call changes nothing.
C12_Step ==
    /\ bloom.bits \subseteq bloom'.bits
    /\ bloom'.size = bloom.size
    /\ bloom'.hashers = bloom.hashers
    /\ bloom_log'.adds = bloom_log.adds + 1
          => /\ Cardinality(bloom'.bits \ bloom.bits) <= Len(bloom.hashers)
             /\ Len(bloom.hashers) <= bloom_log.k
             /\ bloom'.num_items = bloom.num_items + 1
    /\ bloom_log'.adds = bloom_log.adds => bloom' = bloom

\* C12: the filter only grows.
C12_Monotone == [][C12_Step]_vars

\* an item is added a second time to a filter that already holds its bits
C12_Witness ==
    /\ bloom_log.op = "add"
    /\ bloom_log.adds = 2
    /\ Cardinality(bloom_log.added) = 1
    /\ bloom.num_items = 2
    /\ bloom.bits /= {}

\* C13: BloomFilter::new selects k pairwise distinct algorithms when the
\* computed k is at most the number of HashAlgo variants, and all of the
\* variants, once each, when k is larger.
C13_HashersChosen ==
    bloom_log.n > 0 =>
        /\ \A i, j \in 1..Len(bloom.hashers) :
              i /= j => bloom.hashers[i] /= bloom.hashers[j]
        /\ bloom_log.k <= Cardinality(HashAlgo)
              => Len(bloom.hashers) = bloom_log.k
        /\ bloom_log.k > Cardinality(HashAlgo)
              => {bloom.hashers[i] : i \in 1..Len(bloom.hashers)} = HashAlgo

\* C14, the answer: verify(s') on the commitment to s returns true exactly
\* when s' = s.
C14_Answer ==
    commit_log.op = "verify"
        => (commit_log.result = TRUE <=> commit_log.arg = commit_log.secret)

\* C14, every step: only commit replaces the commitment; verify leaves it as
\* it is.
C14_VerifyStep == commit_log'.op = "verify" => commitment' = commitment

\* C14: a commitment verifies for its secret and for no other secret, and
\* verify never changes it.
C14_Binding == []C14_Answer /\ [][C14_VerifyStep]_vars

\* the committed secret was verified
C14_Witness ==
    /\ commit_log.op = "verify"
    /\ commit_log.arg = commit_log.secret
    /\ commit_log.result = TRUE
    /\ Len(commit_log.secret) = 1

\* a secret that is a prefix of the committed one was refused
C14_WitnessOther ==
    /\ commit_log.op = "verify"
    /\ commit_log.secret = commit_log.arg \o <<commitment.nonce[1]>>
    /\ commit_log.result = FALSE

\* bytes i*C .. min((i+1)*C, len) - 1 of data, i counted from 0
SliceOf(data, i) ==
    SubSeq(data, i * CHUNK_SIZE + 1,
           IF (i + 1) * CHUNK_SIZE < Len(data) THEN (i + 1) * CHUNK_SIZE
                                               ELSE Len(data))

\* the number of bytes in the blobs 0..n-1 stored under hex
RECURSIVE BlobBytes(_, _)
BlobBytes(hex, n) ==
    IF n = 0 THEN 0
    ELSE Len(hist.blobs[ChunkPath(hex, n - 1)]) + BlobBytes(hex, n - 1)

\* the metadata meta describes data and the blobs written for it
WellFormed(data, meta) ==
    /\ meta.merkle_root = MerkleNew(meta.chunks).root
    /\ meta.hash = Compute(data, "Sha256")
    /\ \A i \in 1..Len(meta.chunks) :
          /\ meta.chunks[i] = Compute(SliceOf(data, i - 1), "Sha256")
          /\ ChunkPath(KeyOf(data), i - 1) \in DOMAIN hist.blobs
          /\ meta.chunks[i] =
                Compute(hist.blobs[ChunkPath(KeyOf(data), i - 1)], "Sha256")
    /\ meta.size = BlobBytes(KeyOf(data), Len(meta.chunks))
    /\ meta.size = Len(data)

\* C15: every metadata returned by store_file, held in the index or written
\* to a sidecar has merkle_root = the root of MerkleTree::new over its
\* chunks, chunks[i] = the digest of the i-th chunk of the data, hash = the
\* digest of the data and size = the sum of the chunk lengths = len(data).
C15_MetadataWellFormed ==
    /\ \A pair \in hist.returned : WellFormed(pair[1], pair[2])
    /\ \A d \in DOMAIN hist.first :
          /\ KeyOf(d) \in DOMAIN hash_to_metadata
          /\ WellFormed(d, hash_to_metadata[KeyOf(d)])
    /\ \A hex \in DOMAIN hash_to_metadata :
          \E d \in DOMAIN hist.first : KeyOf(d) = hex

\* metadata of a three-chunk file, whose tree has a self-paired node, was
\* returned to a second submission of the file
C15_Witness ==
    /\ ret.op = "store"
    /\ ret.dup
    /\ Len(ret.meta[1].chunks) = 3
    /\ ret.meta[1].size = 2 * CHUNK_SIZE + 1
    /\ ret.meta[1] = hash_to_metadata[KeyOf(ret.input[1])]

\* the metadata of the empty file: no chunks, size 0, the root of the empty
\* tree
C15_WitnessEmpty ==
    /\ ret.op = "store"
    /\ ret.input[1] = <<>>
    /\ ret.meta[1].chunks = <<>>
    /\ ret.meta[1].size = 0
    /\ ret.meta[1].merkle_root = Compute(<<>>, "Sha256")

\* ceil(len / CHUNK_SIZE)
NumChunks(data) == (Len(data) + CHUNK_SIZE - 1) \div CHUNK_SIZE

\* the blobs persisted for data are keyed (H, 0) .. (H, ceil(len/C) - 1),
\* blob i holds the i-th slice of data, every blob but the last has C bytes
\* and the last between 1 and C
ChunkedAs(data) ==
    /\ {p \in DOMAIN chunk_files : p.hex = KeyOf(data)} =
          {ChunkPath(KeyOf(data), i) : i \in 0..(NumChunks(data) - 1)}
    /\ \A i \in 0..(NumChunks(data) - 1) :
          LET blob == chunk_files[ChunkPath(KeyOf(data), i)]
          IN  /\ blob = SliceOf(data, i)
              /\ i < NumChunks(data) - 1 => Len(blob) = CHUNK_SIZE
              /\ i = NumChunks(data) - 1
                    => (Len(blob) >= 1 /\ Len(blob) <= CHUNK_SIZE)
    /\ Len(hash_to_metadata[KeyOf(data)].chunks) = NumChunks(data)

\* C16: chunking.  A store_file call of new data writes exactly the chunk
\* blobs (H, 0) .. (H, ceil(len/C) - 1) and the sidecar, and the blobs kept
\* for every stored content are its slices of C bytes in order, the last of
\* 1..C bytes; empty data has no blob.
C16_Chunking ==
    /\ \A d \in DOMAIN hist.first : ChunkedAs(d)
    /\ (ret.op = "store" /\ ~ret.dup)
          => ret.wrote =
                {ChunkPath(KeyOf(ret.input[1]), i) :
                    i \in 0..(NumChunks(ret.input[1]) - 1)}
                \cup {MetaPath(KeyOf(ret.input[1]))}

\* two chunk sizes and a half: three blobs of C, C and C/2 bytes
C16_Witness ==
    /\ ret.op = "store"
    /\ ~ret.dup
    /\ Len(ret.input[1]) = 2 * CHUNK_SIZE + CHUNK_SIZE \div 2
    /\ Cardinality({p \in DOMAIN chunk_files : p.hex = KeyOf(ret.input[1])}) = 3
    /\ Len(chunk_files[ChunkPath(KeyOf(ret.input[1]), 0)]) = CHUNK_SIZE
    /\ Len(chunk_files[ChunkPath(KeyOf(ret.input[1]), 1)]) = CHUNK_SIZE
    /\ Len(chunk_files[ChunkPath(KeyOf(ret.input[1]), 2)]) = CHUNK_SIZE \div 2

\* the empty file is stored without a blob
C16_WitnessEmpty ==
    /\ ret.op = "store"
    /\ ~ret.dup
    /\ ret.input[1] = <<>>
    /\ ret.wrote = {MetaPath(KeyOf(<<>>))}
    /\ hist.n = 2

\* C17: verify(path) fails when path was never registered; for a registered
\* path it returns true exactly when the file is there with the content it
\* had at the latest register(path), and false when the file is there with
\* any other content.
C17_Verify ==
    auth_log.op = "verify" =>
        LET path == auth_log.path
            known == path \in DOMAIN auth_log.registered
            there == path \in DOMAIN watch_files
        IN  /\ ~known => auth_log.kind = "NotRegistered"
            /\ known =>
                  ((auth_log.kind = "Ok" /\ auth_log.result = TRUE)
                      <=> (there /\ watch_files[path] = auth_log.registered[path]))
            /\ (known /\ there /\ watch_files[path] /= auth_log.registered[path])
                  => (auth_log.kind = "Ok" /\ auth_log.result = FALSE)

\* a path registered a second time, after its content changed, verifies with
\* the new content
C17_Witness ==
    /\ auth_log.op = "verify"
    /\ auth_log.kind = "Ok"
    /\ auth_log.result = TRUE
    /\ auth_log.regs[auth_log.path] = 2
    /\ auth.known_files[auth_log.path] = Compute(<<1>>, "Sha256")
    /\ auth.bloom.num_items = 3

\* a changed file is reported
C17_WitnessChanged ==
    /\ auth_log.op = "verify"
    /\ auth_log.kind = "Ok"
    /\ auth_log.result = FALSE
    /\ auth_log.registered[auth_log.path] = <<>>

\* a file that is there but was never registered is an error
C17_WitnessUnknown ==
    /\ auth_log.op = "verify"
    /\ auth_log.kind = "NotRegistered"
    /\ auth_log.path \in DOMAIN watch_files
    /\ auth_log.registered /= <<>>

\* C18, the answer: quick_check(path) is true for every path a register call
\* has succeeded on.
C18_Answer ==
    (auth_log.op = "quick_check" /\ auth_log.path \in DOMAIN auth_log.registered)
        => auth_log.result = TRUE

\* C18, every step: a register call that fails changes neither the registry
\* nor the Bloom filter, and no step removes a path from the registry.
C18_Step ==
    /\ (auth_log'.op = "register" /\ auth_log'.kind /= "Ok") => auth' = auth
    /\ DOMAIN auth.known_files \subseteq DOMAIN auth'.known_files
    /\ DOMAIN auth'.known_files = DOMAIN auth_log'.registered

\* C18: quick_check has no false negative, in every later state.
C18_QuickCheck == []C18_Answer /\ [][C18_Step]_vars

\* quick_check finds a registered path whose file is gone, after the other
\* path was registered and a register call failed
C18_Witness ==
    /\ auth_log.op = "quick_check"
    /\ auth_log.result = TRUE
    /\ auth_log.path \notin DOMAIN watch_files
    /\ DOMAIN auth_log.registered = Paths
    /\ auth.bloom.num_items = 2

\* a register call failed on a missing file, with a path registered before
C18_WitnessFailed ==
    /\ auth_log.op = "register"
    /\ auth_log.kind = "IoError"
    /\ auth_log.registered /= <<>>

\* C19, the answer: retrieve_file of content stored by an earlier engine and
\* not by the present one fails with not-found.
C19_PriorNotFound ==
    \A d \in boot.prior \ DOMAIN hist.first :
        (ret.op = "retrieve" /\ ret.hash = Compute(d, "Sha256"))
            => (ret.kind = "NotFound" /\ ret.bytes = <<>>)

\* C19, every step: a restart empties both indices and zeroes the counters
\* and leaves the directory as it is; the first store_file of content an
\* earlier engine stored writes all its chunk blobs and the sidecar again,
\* adds 1 to unique_files and leaves saved_bytes as it is.
C19_Step ==
    /\ boot'.restarts /= boot.restarts
          => /\ hash_to_path' = <<>>
             /\ hash_to_metadata' = <<>>
             /\ dedup_stats' = [total_files |-> 0, unique_files |-> 0,
                                total_bytes |-> 0, saved_bytes |-> 0]
             /\ chunk_files' = chunk_files
             /\ meta_files' = meta_files
    /\ \A d \in boot.prior \ DOMAIN hist.first :
          (ret'.op = "store" /\ hist'.n = hist.n + 1 /\ ret'.input[1] = d)
              => /\ ret'.wrote =
                       {ChunkPath(KeyOf(d), i) : i \in 0..(NumChunks(d) - 1)}
                          \cup {MetaPath(KeyOf(d))}
                 /\ dedup_stats'.unique_files = dedup_stats.unique_files + 1
                 /\ dedup_stats'.saved_bytes = dedup_stats.saved_bytes
                 /\ meta_files'[MetaPath(KeyOf(d))].json = ret'.meta[1]
                 /\ ret'.meta[1].created_at = now

\* C19: a restart loses the index.
C19_RestartLosesIndex == []C19_PriorNotFound /\ [][C19_Step]_vars

\* after a restart, a three-chunk file the earlier engine stored was stored
\* again as a new file: its sidecar now carries the time of the second store
C19_Witness ==
    /\ boot.restarts = 1
    /\ ret.op = "store"
    /\ ret.input[1] \in boot.prior
    /\ Len(ret.input[1]) = 2 * CHUNK_SIZE + 1
    /\ Cardinality(ret.wrote) = 4
    /\ dedup_stats.unique_files = 1
    /\ dedup_stats.saved_bytes = 0
    /\ meta_files[MetaPath(KeyOf(ret.input[1]))].json.created_at = 2

\* after a restart, a file whose blobs and sidecar are in the directory is
\* not found
C19_WitnessNotFound ==
    /\ boot.restarts = 1
    /\ ret.op = "retrieve"
    /\ ret.kind = "NotFound"
    /\ \E d \in boot.prior :
          /\ ret.hash = Compute(d, "Sha256")
          /\ MetaPath(KeyOf(d)) \in DOMAIN meta_files
          /\ ChunkPath(KeyOf(d), 0) \in DOMAIN chunk_files

\* both tasks found the same content unknown and have completed their calls
BothNew(d) ==
    \A t \in Tasks : /\ race.task[t].pc = "done"
                     /\ race.task[t].path = "new"
                     /\ race.task[t].data = d

\* C20, every state: when two calls for the same content both passed the
\* known-hash check before either registered it, every chunk blob and the
\* sidecar of the content were written twice and the index holds one entry
\* for it while unique_files counted it twice; unique_files exceeds the
\* number of index entries by the number of such registrations, which is 0
\* as long as no call began while another was in progress.
C20_State ==
    /\ \A d \in TamperPayloads :
          BothNew(d) =>
              /\ \A i \in 0..(NumChunks(d) - 1) :
                    race.writes[ChunkPath(KeyOf(d), i)] >= 2
              /\ race.writes[MetaPath(KeyOf(d))] >= 2
              /\ KeyOf(d) \in DOMAIN hash_to_metadata
              /\ dedup_stats.unique_files
                    >= Cardinality(DOMAIN hash_to_metadata) + 1
    /\ (\A t \in Tasks : ~InProgress(t))
          => dedup_stats.unique_files
                = Cardinality(DOMAIN hash_to_metadata) + race.doubled
    /\ ~race.overlapped
          => /\ race.doubled = 0
             /\ \A p \in DOMAIN race.writes : race.writes[p] = 1
             /\ \A d \in TamperPayloads : ~BothNew(d)

\* C20, every step: the steps of a call on the new-file path leave
\* saved_bytes as it is, and its registration adds 1 to unique_files whether
\* or not the hash is in the index already, in which case the index keeps its
\* single entry for the hash.
C20_Step ==
    \A t \in Tasks :
        (race.task[t].pc = "register" /\ race'.task[t].pc = "done")
            => /\ dedup_stats'.saved_bytes = dedup_stats.saved_bytes
               /\ dedup_stats'.unique_files = dedup_stats.unique_files + 1
               /\ DOMAIN hash_to_metadata' =
                     DOMAIN hash_to_metadata
                        \cup {KeyOf(race.task[t].data)}

\* C20: the check-then-act race of store_file.
C20_Race == []C20_State /\ [][C20_Step]_vars

\* both tasks stored the same three-chunk content as new: four files written
\* twice, two unique files counted, one index entry, nothing saved
C20_Witness ==
    /\ BothNew(Pattern(2 * CHUNK_SIZE + 1, 0))
    /\ race.overlapped
    /\ Cardinality({p \in DOMAIN race.writes : race.writes[p] = 2}) = 4
    /\ dedup_stats.unique_files = 2
    /\ dedup_stats.total_files = 2
    /\ dedup_stats.saved_bytes = 0
    /\ Cardinality(DOMAIN hash_to_metadata) = 1

\* the same two calls one after the other: the second is a duplicate
C20_WitnessSerialized ==
    /\ ~race.overlapped
    /\ race.task[1].pc = "done"
    /\ race.task[2].pc = "done"
    /\ race.task[1].data = race.task[2].data
    /\ race.task[1].path = "new"
    /\ race.task[2].path = "dup"
    /\ dedup_stats.unique_files = 1
    /\ dedup_stats.saved_bytes = 2 * CHUNK_SIZE + 1

\* the index generate_proof(i) stands at in level l (levels counted from 0)
IdxAt(i, l) == i \div (2 ^ l)

\* what the walk records at level l: the right neighbour of an even index
\* that has one, the left neighbour of an odd index, nothing for an even
\* index that is the last of its level
StepAt(t, i, l) ==
    LET idx == IdxAt(i, l)
        nodes == t.levels[l + 1]
    IN  IF idx % 2 = 1
        THEN [has |-> TRUE, sib |-> <<nodes[idx], FALSE>>]
        ELSE IF idx + 1 < Len(nodes)
        THEN [has |-> TRUE, sib |-> <<nodes[idx + 2], TRUE>>]
        ELSE [has |-> FALSE, sib |-> <<nodes[idx + 1], TRUE>>]

HasSibling(e) == e.has

\* the siblings of leaf i, from the leaf level up to the level below the root
SiblingsOf(t, i) ==
    LET steps == SelectSeq([k \in 1..(Len(t.levels) - 1) |-> StepAt(t, i, k - 1)],
                           HasSibling)
    IN  [k \in 1..Len(steps) |-> steps[k].sib]

\* C21: generate_proof(i) for a valid i returns a proof whose leaf_hash is
\* leaf i, whose root_hash is the root, and whose siblings are, level by
\* level from the leaves to the level below the root with idx halving, the
\* right neighbour (is_right = true) of an even idx that has one, the left
\* neighbour (is_right = false) of an odd idx, and nothing for a self-paired
\* node; so there are at most (levels - 1) siblings.
C21_ProofShape ==
    (mk.pc = "proved" /\ mk.idx < Len(mk.leaves)) =>
        /\ proof[1].tag = "Some"
        /\ LET p == proof[1].val[1]
               t == tree[1]
           IN  /\ p.leaf_hash = t.leaves[mk.idx + 1]
               /\ p.root_hash = t.root
               /\ p.siblings = SiblingsOf(t, mk.idx)
               /\ Len(p.siblings) <= Len(t.levels) - 1

\* the last of five leaves is self-paired at levels 0 and 1: the proof holds
\* the single sibling of level 2, a left one, for a tree of four levels
C21_Witness ==
    /\ mk.pc = "proved"
    /\ Len(mk.leaves) = 5
    /\ mk.idx = 4
    /\ Len(tree[1].levels) = 4
    /\ Len(proof[1].val[1].siblings) = 1
    /\ proof[1].val[1].siblings[1] = <<tree[1].levels[3][1], FALSE>>

\* a leaf with a neighbour at every level has levels - 1 siblings
C21_WitnessFull ==
    /\ mk.pc = "proved"
    /\ Len(mk.leaves) = 4
    /\ mk.idx = 1
    /\ Len(proof[1].val[1].siblings) = 2
    /\ proof[1].val[1].siblings[1] = <<mk.leaves[1], FALSE>>
    /\ proof[1].val[1].siblings[2][2] = TRUE

\* C22: resubmission is a success path.  When an owner calls upload_file with
\* bytes that owner has uploaded before, the call returns Ok with the metadata
\* the index holds for the content.
C22_ResubmissionSucceeds ==
    (upload.op = "upload" /\ upload.resub)
        => /\ upload.kind = "Ok"
           /\ upload.meta = <<hash_to_metadata[KeyOf(upload.input[1])]>>

RECURSIVE SizeSum(_)
\* the sum of size over the metadata indexed under the keys in keys
SizeSum(keys) ==
    IF keys = {} THEN 0
    ELSE LET k == CHOOSE x \in keys : TRUE
         IN  hash_to_metadata[k].size + SizeSum(keys \ {k})

\* C23: index consistency.  In every state reached by store_file and
\* retrieve_file calls made one after the other, hash_to_path and
\* hash_to_metadata have the same keys, each key is the hex text of the hash
\* of the metadata it maps to, unique_files is the number of keys,
\* unique_files <= total_files, saved_bytes <= total_bytes, and
\* total_bytes - saved_bytes is the sum of size over the indexed metadata.
C23_IndexConsistent ==
    /\ DOMAIN hash_to_path = DOMAIN hash_to_metadata
    /\ \A hex \in DOMAIN hash_to_metadata :
          hex = HexEncode(hash_to_metadata[hex].hash.bytes)
    /\ dedup_stats.unique_files = Cardinality(DOMAIN hash_to_metadata)
    /\ dedup_stats.unique_files <= dedup_stats.total_files
    /\ dedup_stats.saved_bytes <= dedup_stats.total_bytes
    /\ dedup_stats.total_bytes - dedup_stats.saved_bytes
          = SizeSum(DOMAIN hash_to_metadata)

\* two files of different sizes are indexed and a retrieve_file call was made
C23_Witness ==
    /\ Cardinality(DOMAIN hash_to_metadata) = 2
    /\ ret.op = "retrieve"
    /\ dedup_stats.total_bytes = 2 * CHUNK_SIZE + 2
    /\ \E hex \in DOMAIN hash_to_metadata : hash_to_metadata[hex].size = 1

\* one file indexed, stored twice: its bytes are counted once as saved
C23_WitnessDuplicate ==
    /\ Cardinality(DOMAIN hash_to_metadata) = 1
    /\ dedup_stats.total_files = 2
    /\ dedup_stats.saved_bytes = 2 * CHUNK_SIZE
    /\ dedup_stats.total_bytes = 4 * CHUNK_SIZE

\* C24, the answer: retrieve_file of content that was submitted again while
\* one of its blobs was altered, and whose blob nothing has put right since,
\* fails with an integrity failure and returns no bytes.
C24_StillFails ==
    \A d \in hist.resubmitted :
        (/\ ret.op = "retrieve"
         /\ ret.hash = Compute(d, "Sha256")
         /\ Corrupted(KeyOf(d)))
            => (ret.kind = "IntegrityViolation" /\ ret.bytes = <<>>)

\* C24, every step: a store_file call of content one of whose blobs is
\* altered succeeds through the duplicate path: nothing is written, the blobs
\* stay as they are, the call is counted as a duplicate with its bytes saved.
C24_DedupStep ==
    \A d \in DOMAIN hist.first :
        (/\ Corrupted(KeyOf(d))
         /\ hist'.n = hist.n + 1
         /\ ret'.input[1] = d)
            => /\ ret'.kind = "Ok"
               /\ ret'.wrote = {}
               /\ chunk_files' = chunk_files
               /\ meta_files' = meta_files
               /\ dedup_stats'.unique_files = dedup_stats.unique_files
               /\ dedup_stats'.saved_bytes = dedup_stats.saved_bytes + Len(d)
               /\ d \in hist'.resubmitted

\* C24: a dedup hit does not repair corruption.
C24_NoRepair == []C24_StillFails /\ [][C24_DedupStep]_vars

\* a three-chunk file was stored, a blob of it altered, the file stored again
\* and then retrieved: integrity failure
C24_Witness ==
    /\ ret.op = "retrieve"
    /\ ret.kind = "IntegrityViolation"
    /\ \E d \in hist.resubmitted :
          /\ ret.hash = Compute(d, "Sha256")
          /\ Len(d) = 2 * CHUNK_SIZE + 1
    /\ hist.n = 2
    /\ dedup_stats.saved_bytes = 2 * CHUNK_SIZE + 1

\* C25: retrieve_file finds a file by the hex text of the digest bytes alone.
\* A HashValue with the bytes of a stored content hash and another algorithm
\* tag, which is not equal to the stored HashValue, retrieves the stored
\* bytes; it does not fail with not-found.
C25_TagIgnored ==
    \A d \in DOMAIN hist.first :
        (/\ ret.op = "retrieve"
         /\ ret.hash.bytes = Compute(d, "Sha256").bytes
         /\ ret.hash.algo /= "Sha256")
            => /\ ret.hash /= hash_to_metadata[KeyOf(d)].hash
               /\ ret.kind = "Ok"
               /\ ret.bytes = d

\* a three-chunk file is retrieved by its digest bytes tagged Sha512, with
\* another file in the store
C25_Witness ==
    /\ ret.op = "retrieve"
    /\ ret.hash.algo = "Sha512"
    /\ ret.kind = "Ok"
    /\ Len(ret.bytes) = 2 * CHUNK_SIZE + 1
    /\ ret.bytes \in DOMAIN hist.first
    /\ Cardinality(DOMAIN hash_to_metadata) = 2

\* the Sha512 digest of a stored file, whose bytes are not those of the
\* stored hash, is not found
C25_WitnessOtherDigest ==
    /\ ret.op = "retrieve"
    /\ ret.kind = "NotFound"
    /\ \E d \in DOMAIN hist.first : ret.hash = Compute(d, "Sha512")

\* C26, every state: every indexed hash has all its chunk blobs and its
\* sidecar on disk, and a retrieve_file call that finds the hash reads all of
\* them.
C26_Registered ==
    /\ \A hex \in DOMAIN hash_to_metadata :
          /\ \A i \in 0..(Len(hash_to_metadata[hex].chunks) - 1) :
                ChunkPath(hex, i) \in DOMAIN chunk_files
          /\ MetaPath(hex) \in DOMAIN meta_files
          /\ meta_files[MetaPath(hex)].json = hash_to_metadata[hex]
    /\ (ret.op = "retrieve" /\ HexEncode(ret.hash.bytes) \in DOMAIN hash_to_metadata)
          => (ret.kind = "Ok" /\ Len(ret.reads) =
                 Len(hash_to_metadata[HexEncode(ret.hash.bytes)].chunks))

\* C26, every step: a store_file call that fails at the sidecar leaves both
\* indices and all counters as they were and the chunk blobs it wrote on
\* disk; a store_file call of content that is not indexed, failed before or
\* not, writes every chunk blob and the sidecar and counts a new unique file.
C26_Step ==
    /\ (ret'.op = "store" /\ ret'.kind = "IoError")
          => /\ UNCHANGED <<hash_to_path, hash_to_metadata, dedup_stats>>
             /\ \A i \in 0..(NumChunks(ret'.input[1]) - 1) :
                   /\ ChunkPath(KeyOf(ret'.input[1]), i) \in DOMAIN chunk_files'
                   /\ ChunkPath(KeyOf(ret'.input[1]), i) \in ret'.wrote
    /\ (/\ ret'.op = "store"
        /\ ret'.kind = "Ok"
        /\ now' = now + 1
        /\ KeyOf(ret'.input[1]) \notin DOMAIN hash_to_metadata)
          => /\ ret'.wrote =
                   {ChunkPath(KeyOf(ret'.input[1]), i) :
                       i \in 0..(NumChunks(ret'.input[1]) - 1)}
                      \cup {MetaPath(KeyOf(ret'.input[1]))}
             /\ dedup_stats'.unique_files = dedup_stats.unique_files + 1
             /\ dedup_stats'.saved_bytes = dedup_stats.saved_bytes
             /\ KeyOf(ret'.input[1]) \in DOMAIN hash_to_metadata'
             /\ KeyOf(ret'.input[1]) \in DOMAIN hash_to_path'

\* C26: store_file registers new content last.
C26_RegisterLast == []C26_Registered /\ [][C26_Step]_vars

\* store_file of a three-chunk file failed at the sidecar, leaving the three
\* blobs and no index entry
C26_WitnessFailed ==
    /\ ret.op = "store"
    /\ ret.kind = "IoError"
    /\ Cardinality(ret.wrote) = 3
    /\ hash_to_metadata = <<>>
    /\ dedup_stats.total_files = 0
    /\ Cardinality(DOMAIN chunk_files) = 3

\* the second call, for the content whose first call failed, stored it as a
\* new file over the blobs left behind
C26_Witness ==
    /\ ret.op = "store"
    /\ ret.kind = "Ok"
    /\ ~ret.dup
    /\ now = 3
    /\ hist.n = 1
    /\ dedup_stats.unique_files = 1
    /\ dedup_stats.saved_bytes = 0
    /\ Len(ret.input[1]) = 2 * CHUNK_SIZE + 1
    /\ \A p \in DOMAIN chunk_files : p.hex = KeyOf(ret.input[1])

====
